---- MODULE Spec2Model ----
(***************************************************************************)
(* OpenDrop: sender (find / send modes, AirDropClient) and receiver       *)
(* (AirDropServerHandler) as state machines.                              *)
(*                                                                         *)
(*   SpecResolve find mode: one mDNS addition and its resolution thread,  *)
(*               with every kind of ServiceInfo and Discover outcome      *)
(*   SpecSend    AirDropCli.send driving one AirDropClient                *)
(*   SpecClient  one AirDropClient driven by any sequence of              *)
(*               send_discover / send_ask / send_upload calls             *)
(*   SpecServer  one connection of the receiver's HTTPS server            *)
(***************************************************************************)
EXTENDS Integers, Sequences, FiniteSets, TLC

VARIABLES
    \* ---- find mode (cli.py) ----
    discover,       \* AirDropCli.discover: the discovery table
    appendedBy,     \* history: the thread that appended discover[i]
    lock,           \* AirDropCli.lock: 0 = free, else the holding thread
    threads,        \* resolution threads started by _found_receiver
    browser,        \* "running" | "stopped"
    services,       \* service names the ServiceBrowser holds as present
    discovery_report, \* the discovery file: missing, or the array written
    \* ---- send mode and AirDropClient (cli.py, client.py) ----
    sendPc,         \* position inside AirDropCli.send
    is_url,         \* AirDropCli.is_url
    receiver,       \* AirDropCli.receiver: the selector given with -r
    infos,          \* the discovery report on disk
    receiverInfo,   \* what _get_receiver_info came to
    report,         \* messages logged by AirDropCli.send, in order
    http_conn,      \* AirDropClient.http_conn: 0 = None, else the object
    connsCreated,   \* history: HTTPSConnectionAWDL objects constructed
    post,           \* the send_POST call in progress
    calls,          \* history: urls send_POST was called with, in order
    returns,        \* history: what each send_POST call returned, in order
    wire,           \* history: requests put on the connection, in order
    respState,      \* response to the last request on the wire:
                    \* none|pending|partial|complete|abandoned
    apiCalls,       \* number of client calls made by the api driver
    \* ---- receiver connection (server.py) ----
    srvPc,          \* position inside the request handler
    req,            \* the request being handled
    responses,      \* status lines emitted on the connection, in order
    close_connection, \* BaseHTTPRequestHandler.close_connection
    reader,         \* HTTPChunkedReader: chunk, total; rfile: eof, bytes read
    extract,        \* extract_stream: idle|reading|ok|failed
    handled,        \* requests handled on this connection
    config,         \* AirDropConfig of the receiver (Handler.config)
    handler,        \* the handler do_POST chose for the request
    post_data,      \* what the handler read of the request body
    wfile,          \* response bodies written, in order
    \* ---- HTTPChunkedReader on the octets of a body (server.py) ----
    payloads,       \* the chunk payloads the body was built from
    rfile,          \* octets of the connection not yet read
    chunked,        \* HTTPChunkedReader: chunk (none = None), total
    returned,       \* history: octets the readinto calls gave, in order
    lastLength,     \* what the last readinto call returned
    readPc,         \* "reading" | "zero" (returned 0) | "raised"
    \* ---- one file sent from a sender to a receiver ----
    file,           \* the sender's file: path and content
    archive,        \* the archive send_upload built in memory
    cwd,            \* the receiver's working directory: path -> content
    created,        \* paths (under cwd) the extraction wrote
    xferPc,         \* position in the transfer
    uploadOk,       \* what send_upload returned: "none" | "True" | "False"
    \* ---- HTTPSConnectionAWDL (client.py) ----
    host,           \* the host the first connection object is built with
    interface_name, \* config.interface: None or a name
    connHost,       \* the host the last connection object holds
    connPc,         \* "new" | "once" | "twice" | "raised"
    \* ---- AirDropServer start (server.py) ----
    busyPorts,      \* ports other programs are bound to
    http_server,    \* port the HTTPS server is bound to, 0 = no server
    service_info,   \* the ServiceInfo built for the advertisement
    startPc,        \* main thread of receive mode: "off"|"init"|"raised"|
                    \* "new"|"bound"|"failed"|"built"|"registered"|"serving"|
                    \* "stopped"|"hung"|"ended"
    ip_addr,        \* what get_ip_for_interface gave: None or an address
    zeroconf,       \* the server's mDNS engine:
                    \* "none"|"open"|"announcing"|"closed"
    action,         \* args.action: "receive" | "find" ("off": not started)
    \* ---- the serve loop of HTTPServerV6 and its peers (server.py) ----
    current,        \* the peer whose connection is being handled, 0 = none
    backlog,        \* connections made and not yet accepted, in order
    peers           \* each peer: its connection, requests sent and served

findVars   == <<discover, appendedBy, lock, threads, browser, services,
                discovery_report>>
sendVars   == <<sendPc, is_url, receiver, infos, receiverInfo, report, http_conn,
                connsCreated, post, calls, returns, wire, respState, apiCalls>>
serverVars == <<srvPc, req, responses, close_connection, reader, extract,
                handled, config, handler, post_data, wfile>>
chunkVars  == <<payloads, rfile, chunked, returned, lastLength, readPc>>
transferVars == <<file, archive, cwd, created, xferPc, uploadOk>>
connVars   == <<host, interface_name, connHost, connPc>>
startVars  == <<busyPorts, http_server, service_info, startPc, ip_addr,
                zeroconf, action>>
handlerVars == <<srvPc, req, responses, close_connection, reader, extract,
                 handled, handler, post_data, wfile>>
acceptVars == <<current, backlog, peers>>
vars       == <<findVars, sendVars, serverVars, chunkVars, transferVars,
                connVars, startVars, acceptVars>>

\* what a specification of one part leaves alone
exceptFind   == <<sendVars, serverVars, chunkVars, transferVars, connVars,
                  startVars, acceptVars>>
exceptSend   == <<findVars, serverVars, chunkVars, transferVars, connVars,
                  startVars, acceptVars>>
exceptServer == <<findVars, sendVars, chunkVars, transferVars, connVars,
                  startVars, acceptVars>>
exceptChunk  == <<findVars, sendVars, serverVars, transferVars, connVars,
                  startVars, acceptVars>>
exceptTransfer == <<findVars, sendVars, connVars, startVars, acceptVars>>
exceptConn   == <<findVars, sendVars, serverVars, chunkVars, transferVars,
                  startVars, acceptVars>>
exceptStart  == <<findVars, sendVars, handlerVars, chunkVars, transferVars,
                  connVars, acceptVars>>
exceptAccept == <<findVars, sendVars, chunkVars, transferVars, connVars,
                  startVars>>

(***************************************************************************)
(* Bounds                                                                  *)
(***************************************************************************)
MaxThreads == 2
MaxCalls == 3
MaxRequests == 2
MaxChunkLen == 2
MaxBody == 3
BlockSize == 1
MaxChunks == 2
MaxBuf == 3
MaxPeers == 2
\* octets http.client puts in one chunk of a streamed body
ClientBlock == 4
\* Python integers are unbounded; values from Huge on are not told apart
Huge == 100000

(***************************************************************************)
(* Python values as they come out of plistlib / json                       *)
(***************************************************************************)
\* a text is the sequence of its characters
Rep(c, n) == [i \in 1..n |-> c]
Test == <<"T", "e", "s", "t">>

NoneVal == [type |-> "none", val |-> <<>>]
Str(s) == [type |-> "string", val |-> s]
PyInt(s) == [type |-> "integer", val |-> s]
Bytes(s) == [type |-> "bytes", val |-> s]

\* bool(v) as cli.py:329 applies it to receiver_name
Truthy(v) ==
    CASE v.type = "none" -> FALSE
      [] v.type = "string" -> v.val # <<>>
      [] v.type = "integer" -> v.val # <<"0">>
      [] v.type = "bytes" -> v.val # <<>>

(***************************************************************************)
(* config.py                                                               *)
(***************************************************************************)
SUPPORTS_MIXED_TYPES == 8
SUPPORTS_DISCOVER_MAYBE == 128

\* flags & bit, for a single-bit mask
HasBit(flags, bit) == (flags \div bit) % 2 = 1

\* config.py:253-256: the flags a receiver advertises (the bits are disjoint)
ReceiverFlags == SUPPORTS_MIXED_TYPES + SUPPORTS_DISCOVER_MAYBE

\* config.py:211
server_port == 8771

\* config.py:226-231
OpenDrop == <<"O", "p", "e", "n", "D", "r", "o", "p">>
ComputerNames == {<<"T", "e", "s", "t">>, <<"M", "a", "c">>}

\* config.py:272-277: None without the file validation_record.cms, else
\* the bytes of the file, which may be empty
RecordData == {NoneVal, Bytes(<<>>), Bytes(<<"c", "m", "s">>)}

\* an AirDropConfig after construction
ConfigOf(name, id, record) ==
    [computer_name |-> name, computer_model |-> OpenDrop, service_id |-> id,
     flags |-> ReceiverFlags, port |-> server_port, record_data |-> record]

(***************************************************************************)
(* find mode: what mDNS and the peers can deliver                          *)
(***************************************************************************)
ServiceIds == {Rep("a", 12), Rep("b", 12)}

\* TXT values of the flags key, as the characters of the byte string
TxtValues == {<<"1", "3", "6">>, <<"8">>, <<"0", "x", "8", "8">>}

\* zeroconf.get_service_info: None, or a ServiceInfo
NoInfo == [none |-> TRUE, id |-> <<>>, hasAddress |-> FALSE,
           hasFlags |-> FALSE, flagsTxt |-> <<>>, port |-> 0]
ServiceInfos ==
    [none : {FALSE}, id : ServiceIds, hasAddress : BOOLEAN,
     hasFlags : {TRUE}, flagsTxt : TxtValues, port : {server_port}]
    \cup [none : {FALSE}, id : ServiceIds, hasAddress : BOOLEAN,
          hasFlags : {FALSE}, flagsTxt : {<<>>}, port : {server_port}]
Infos == {NoInfo} \cup ServiceInfos

\* What the Discover exchange with a peer can come to: the request fails
\* (connection error, timeout), or a response with a status and a body.
\* A body is not a plist at all, a plist whose root is not a dict, or a
\* dict with or without the key ReceiverComputerName.
NoBody == [kind |-> "none", hasName |-> FALSE, name |-> NoneVal]
Garbage == [kind |-> "garbage", hasName |-> FALSE, name |-> NoneVal]
ArrayPlist == [kind |-> "array", hasName |-> FALSE, name |-> NoneVal]
DictWithout == [kind |-> "dict", hasName |-> FALSE, name |-> NoneVal]
DictWith(v) == [kind |-> "dict", hasName |-> TRUE, name |-> v]
NameValues == {Str(Test), Str(<<>>), PyInt(<<"7">>), PyInt(<<"0">>)}
Bodies == {Garbage, ArrayPlist, DictWithout} \cup {DictWith(v) : v \in NameValues}

NoExchange == [kind |-> "none", status |-> 0, body |-> NoBody]
Failure(k) == [kind |-> k, status |-> 0, body |-> NoBody]
Response(st, b) == [kind |-> "response", status |-> st, body |-> b]
Outcomes ==
    {Failure("connection error"), Failure("timeout")}
    \cup {Response(st, b) : st \in {200, 400}, b \in Bodies}

\* int(text): decimal digits, else ValueError
DigitVal(c) ==
    CASE c = "0" -> 0 [] c = "1" -> 1 [] c = "2" -> 2 [] c = "3" -> 3
      [] c = "4" -> 4 [] c = "5" -> 5 [] c = "6" -> 6 [] c = "7" -> 7
      [] c = "8" -> 8 [] c = "9" -> 9 [] OTHER -> 10

IsDecimal(s) == s # <<>> /\ \A i \in 1..Len(s) : DigitVal(s[i]) < 10

RECURSIVE DecValue(_, _)
DecValue(s, acc) ==
    IF s = <<>> THEN acc
    ELSE DecValue(Tail(s), IF acc >= Huge THEN acc
                           ELSE acc * 10 + DigitVal(Head(s)))

\* str(n) of a natural number
DecDigit(d) == <<"0", "1", "2", "3", "4", "5", "6", "7", "8", "9">>[d + 1]
RECURSIVE DecString(_)
DecString(n) ==
    IF n < 10 THEN <<DecDigit(n)>>
    ELSE DecString(n \div 10) \o <<DecDigit(n % 10)>>

(***************************************************************************)
(* AirDropClient.send_discover seen from its caller: send_POST returns     *)
(* (status == 200, bytes) for any response and (False, None) when          *)
(* anything raised; the status is dropped (client.py:674) and the bytes    *)
(* are decoded whatever the status was.                                    *)
(***************************************************************************)
\* "raise": plistlib.loads or response.get raised
DiscoverRaises(o) ==
    o.kind = "response" /\ o.body.kind \in {"garbage", "array"}

\* the value send_discover returns when it does not raise
DiscoverName(o) ==
    IF o.kind = "response" /\ o.body.kind = "dict" /\ o.body.hasName
    THEN o.body.name
    ELSE NoneVal

(***************************************************************************)
(* find mode: AirDropCli                                                   *)
(***************************************************************************)
Threads == 1..MaxThreads

IdleThread ==
    [pc |-> "idle", info |-> NoInfo, flags |-> 0, exchange |-> NoExchange,
     receiver_name |-> NoneVal, discoverable |-> FALSE, index |-> 0]

InitFind ==
    /\ discover = <<>>
    /\ appendedBy = <<>>
    /\ lock = 0
    /\ threads = [t \in Threads |-> IdleThread]
    /\ browser = "running"
    /\ services = {}
    /\ discovery_report = [exists |-> FALSE, list |-> <<>>]

\* a callback that joins the thread it started
CallbackWaits_join(ths) ==
    \E t \in Threads : ths[t].pc \in {"resolve", "discover"}

\* _found_receiver, cli.py:244-245: thread.start() and no join
CallbackWaits(ths) == FALSE

\* AirDropBrowser.add_service -> AirDropCli._found_receiver: one new
\* thread per addition, started and not waited for
add_service(info) ==
    /\ browser = "running"
    /\ ~CallbackWaits(threads)
    /\ \E t \in Threads :
          /\ threads[t].pc = "idle"
          /\ \A u \in Threads : u < t => threads[u].pc # "idle"
          /\ threads' = [threads EXCEPT ![t].pc = "resolve", ![t].info = info]
    /\ services' = services \cup {info.id}
    /\ UNCHANGED <<discover, appendedBy, lock, browser, discovery_report>>

\* a removal that clears the table
AfterRemoval_cleared(list, id) == <<>>

\* cli.py:204: start(callback_add=self._found_receiver) gives no
\* callback_remove, so a removal leaves the table as it is
AfterRemoval(list, id) == list

\* AirDropBrowser.remove_service, client.py:361-365
remove_service(id) ==
    /\ browser = "running"
    /\ id \in services
    /\ services' = services \ {id}
    /\ discover' = AfterRemoval(discover, id)
    /\ UNCHANGED <<appendedBy, lock, threads, browser, discovery_report>>

\* a thread that raises with the lock taken
LockAfterError_held(l, t) == t

\* _send_discover, cli.py:302-329: every statement that can raise comes
\* before lock.acquire() (cli.py:407), so an exception that ends the
\* thread leaves the lock as it was
LockAfterError(l, t) == l

\* a thread that goes on without an address
MissingAddress_never(info) == FALSE

\* _send_discover, cli.py:302-306: info.parsed_addresses()[0] raises
\* IndexError, the thread warns and returns
MissingAddress(info) == ~info.hasAddress

\* _send_discover, cli.py:302-317: address, identifier, client, flags
resolve(t) ==
    /\ threads[t].pc = "resolve"
    /\ LET info == threads[t].info IN
         threads' = [threads EXCEPT ![t] =
            IF info.none THEN [@ EXCEPT !.pc = "crashed"]
            ELSE IF MissingAddress(info) THEN [@ EXCEPT !.pc = "dropped"]
            ELSE IF ~info.hasFlags
                 THEN [@ EXCEPT !.pc = "discover",
                                !.flags = SUPPORTS_DISCOVER_MAYBE]
            ELSE IF ~IsDecimal(info.flagsTxt) THEN [@ EXCEPT !.pc = "crashed"]
            ELSE [@ EXCEPT !.pc = "discover",
                           !.flags = DecValue(info.flagsTxt, 0)]]
    /\ lock' = IF threads'[t].pc = "crashed" THEN LockAfterError(lock, t)
               ELSE lock
    /\ UNCHANGED <<discover, appendedBy, browser, services, discovery_report>>

\* _send_discover, cli.py:318-329: the Discover exchange when the flags
\* allow it, then discoverable = bool(receiver_name)
discoverable_of(receiver_name) == Truthy(receiver_name)

\* a sender that asks every peer
SupportsDiscover_always(flags) == TRUE

\* cli.py:318: if flags & AirDropReceiverFlags.SUPPORTS_DISCOVER_MAYBE
SupportsDiscover(flags) == HasBit(flags, SUPPORTS_DISCOVER_MAYBE)

send_discover(t, o) ==
    /\ threads[t].pc = "discover"
    /\ threads' = [threads EXCEPT ![t] =
          IF ~SupportsDiscover(@.flags)
          THEN [@ EXCEPT !.pc = "index", !.receiver_name = NoneVal,
                         !.discoverable = discoverable_of(NoneVal)]
          ELSE IF DiscoverRaises(o)
          THEN [@ EXCEPT !.pc = "crashed", !.exchange = o]
          ELSE [@ EXCEPT !.pc = "index", !.exchange = o,
                         !.receiver_name = DiscoverName(o),
                         !.discoverable = discoverable_of(DiscoverName(o))]]
    /\ lock' = IF threads'[t].pc = "crashed" THEN LockAfterError(lock, t)
               ELSE lock
    /\ UNCHANGED <<discover, appendedBy, browser, services, discovery_report>>

\* cli.py:331: index = len(self.discover), read without the lock
read_index(t) ==
    /\ threads[t].pc = "index"
    /\ threads' = [threads EXCEPT ![t].pc = "acquire",
                                  ![t].index = Len(discover)]
    /\ UNCHANGED <<discover, appendedBy, lock, browser, services,
                   discovery_report>>

\* a lock that never blocks
LockFree_any(l) == TRUE

\* threading.Lock.acquire() returns when no thread holds the lock
LockFree(l) == l = 0

\* cli.py:407: self.lock.acquire()
acquire(t) ==
    /\ threads[t].pc = "acquire"
    /\ LockFree(lock)
    /\ lock' = t
    /\ threads' = [threads EXCEPT ![t].pc = "append"]
    /\ UNCHANGED <<discover, appendedBy, browser, services, discovery_report>>

\* cli.py:398-406
node_info(t) ==
    [name |-> threads[t].receiver_name,
     id |-> threads[t].info.id,
     port |-> threads[t].info.port,
     flags |-> threads[t].flags,
     discoverable |-> threads[t].discoverable]

\* cli.py:408-416: append and log
append(t) ==
    /\ threads[t].pc = "append"
    /\ discover' = Append(discover, node_info(t))
    /\ appendedBy' = Append(appendedBy, t)
    /\ threads' = [threads EXCEPT ![t].pc = "release"]
    /\ UNCHANGED <<lock, browser, services, discovery_report>>

\* cli.py:417: self.lock.release()
release(t) ==
    /\ threads[t].pc = "release"
    /\ lock' = 0
    /\ threads' = [threads EXCEPT ![t].pc = "done"]
    /\ UNCHANGED <<discover, appendedBy, browser, services, discovery_report>>

\* find, cli.py:207-213: the interrupt stops the browser and the table is
\* written to the discovery file as it is then, without the lock
\* a find that writes an empty report
Dumped_empty(list) == <<>>

\* cli.py:212-213: json.dump(self.discover, f)
Dumped(list) == list

stop_browser ==
    /\ browser = "running"
    /\ browser' = "stopped"
    /\ discovery_report' = [exists |-> TRUE, list |-> Dumped(discover)]
    /\ UNCHANGED <<discover, appendedBy, lock, threads, services>>
(***************************************************************************)
(* AirDropClient.send_POST, client.py:569-604                              *)
(***************************************************************************)
Urls == {"/Discover", "/Ask", "/Upload"}
Statuses == {200, 400}

NoResult == [ok |-> FALSE, hasBody |-> FALSE, status |-> 0]
IdlePost == [pc |-> "idle", url |-> "", status |-> 0, result |-> NoResult]

\* client.py:603-604: except Exception -> return False, None
Raised == [ok |-> FALSE, hasBody |-> FALSE, status |-> 0]

\* a client that takes every response for a success
StatusOk_any(st) == TRUE

\* client.py:596-602: status is True only for 200; the bytes are returned
StatusOk(st) == st = 200
Returned(st) == [ok |-> StatusOk(st), hasBody |-> TRUE, status |-> st]

\* a client that builds a connection object for every request
NeedsConnection_always(conn) == TRUE

\* client.py:579: a connection object is built only while there is none
NeedsConnection(conn) == conn = 0

\* client.py:588-590: the response is read before send_POST returns
AfterGetResponse == "read"

\* entry of send_POST, used by the callers' actions
post_begin(url) ==
    /\ post.pc = "idle"
    /\ post' = [pc |-> "build", url |-> url, status |-> 0, result |-> NoResult]
    /\ calls' = Append(calls, url)

\* client.py:571-586: headers, then the connection object (its constructor
\* raises for a host that is no address literal or a broken key file)
post_build ==
    /\ post.pc = "build"
    /\ IF NeedsConnection(http_conn)
       THEN \/ /\ http_conn' = connsCreated + 1
               /\ connsCreated' = connsCreated + 1
               /\ post' = [post EXCEPT !.pc = "request"]
            \/ /\ post' = [post EXCEPT !.pc = "returned", !.result = Raised]
               /\ UNCHANGED <<http_conn, connsCreated>>
       ELSE /\ post' = [post EXCEPT !.pc = "request"]
            /\ UNCHANGED <<http_conn, connsCreated>>
    /\ UNCHANGED <<sendPc, is_url, receiver, infos, receiverInfo, report, calls, returns,
                   wire, respState, apiCalls>>

\* client.py:587: http_conn.request puts the request on the wire, or raises
post_request ==
    /\ post.pc = "request"
    /\ \/ /\ wire' = Append(wire, post.url)
          /\ respState' = "pending"
          /\ post' = [post EXCEPT !.pc = "getresponse"]
       \/ /\ post' = [post EXCEPT !.pc = "returned", !.result = Raised]
          /\ UNCHANGED <<wire, respState>>
    /\ UNCHANGED <<sendPc, is_url, receiver, infos, receiverInfo, report, http_conn,
                   connsCreated, calls, returns, apiCalls>>

\* client.py:588: getresponse reads the status line and headers, or raises
post_getresponse ==
    /\ post.pc = "getresponse"
    /\ \/ \E st \in Statuses :
             /\ post' = [post EXCEPT !.pc = AfterGetResponse, !.status = st,
                                     !.result = Returned(st)]
             /\ respState' = "partial"
       \/ /\ post' = [post EXCEPT !.pc = "returned", !.result = Raised]
          /\ respState' = "abandoned"
    /\ UNCHANGED <<sendPc, is_url, receiver, infos, receiverInfo, report, http_conn,
                   connsCreated, calls, returns, wire, apiCalls>>

\* client.py:590-602: read() gets the whole body, or raises
post_read ==
    /\ post.pc = "read"
    /\ \/ /\ post' = [post EXCEPT !.pc = "returned"]
          /\ respState' = "complete"
       \/ /\ post' = [post EXCEPT !.pc = "returned", !.result = Raised]
          /\ respState' = "abandoned"
    /\ UNCHANGED <<sendPc, is_url, receiver, infos, receiverInfo, report, http_conn,
                   connsCreated, calls, returns, wire, apiCalls>>

\* send_POST returns to its caller
post_end ==
    /\ post.pc = "returned"
    /\ post' = IdlePost
    /\ returns' = Append(returns, [url |-> post.url, ok |-> post.result.ok,
                                   hasBody |-> post.result.hasBody,
                                   status |-> post.result.status])

InitClient ==
    /\ http_conn = 0
    /\ connsCreated = 0
    /\ post = IdlePost
    /\ calls = <<>>
    /\ returns = <<>>
    /\ wire = <<>>
    /\ respState = "none"
    /\ apiCalls = 0

(***************************************************************************)
(* AirDropCli.send, cli.py:499-512                                         *)
(***************************************************************************)
\* client.py:816-818: send_ask returns the success flag of send_POST
send_ask_result(result) == result.ok

\* a sender that goes on whatever Ask returned
Declined_never(accepted) == FALSE

\* cli.py:504: if not self.client.send_ask(...)
Declined(accepted) == ~accepted

\* a sender that uploads links like files
SkipsUpload_never(isUrl) == FALSE

\* client.py:906-907: send_upload returns at once (None) for a link
SkipsUpload(isUrl) == isUrl

\* cli.py:509: if not self.client.send_upload(...); None is falsy
UploadFailed(value) == value # "True"

\* the discovery report: missing, or the JSON array find mode wrote
NoReport == [exists |-> FALSE, list |-> <<>>]
ReportOf(list) == [exists |-> TRUE, list |-> list]
RecordA == [name |-> Str(Test), id |-> Rep("a", 12)]
RecordB == [name |-> NoneVal, id |-> Rep("b", 12)]
RecordC == [name |-> Str(Test), id |-> Rep("1", 12)]
DiscoveryReports ==
    {NoReport, ReportOf(<<>>), ReportOf(<<RecordA>>),
     ReportOf(<<RecordA, RecordB>>), ReportOf(<<RecordB, RecordC>>)}

Selectors ==
    {<<"0">>, <<"1">>, <<"5">>, <<"-", "1">>, Rep("a", 12), Rep("b", 12),
     Rep("1", 12), Rep("c", 12), Test, <<"x">>}

\* int(self.receiver), cli.py:536: an optional sign and decimal digits
IsInt(s) ==
    IF s # <<>> /\ Head(s) = "-" THEN IsDecimal(Tail(s)) ELSE IsDecimal(s)

IntValue(s) ==
    IF Head(s) = "-" THEN 0 - DecValue(Tail(s), 0) ELSE DecValue(s, 0)

\* infos[k], cli.py:537: 0 when k is out of range (IndexError), else the
\* position counted from 1; a negative k counts from the end
ListIndex(list, k) ==
    IF k >= 0 /\ k < Len(list) THEN k + 1
    ELSE IF k < 0 /\ 0 - k <= Len(list) THEN Len(list) + k + 1
    ELSE 0

\* the loops of cli.py:544-550 return at the first match: the least
\* position of a set, 0 when it is empty
FirstIn(S) == IF S = {} THEN 0 ELSE CHOOSE i \in S : \A j \in S : i <= j

NoneFound == [kind |-> "none", index |-> 0]
Found(i) == [kind |-> "found", index |-> i]
\* an exception left _get_receiver_info
LookupRaised == [kind |-> "raised", index |-> 0]

\* _get_receiver_info, cli.py:523-555.  When int() succeeds the selector is
\* an int from then on, so after an IndexError len(self.receiver) raises.
LookupById(list, sel) ==
    IF Len(sel) = 12
    THEN FirstIn({i \in 1..Len(list) : list[i].id = sel})
    ELSE 0

LookupByName(list, sel) ==
    FirstIn({i \in 1..Len(list) : list[i].name = Str(sel)})

ReceiverLookup(rpt, sel) ==
    IF ~rpt.exists THEN NoneFound
    ELSE IF IsInt(sel)
    THEN IF ListIndex(rpt.list, IntValue(sel)) # 0
         THEN Found(ListIndex(rpt.list, IntValue(sel)))
         ELSE LookupRaised
    ELSE IF LookupById(rpt.list, sel) # 0
    THEN Found(LookupById(rpt.list, sel))
    ELSE IF LookupByName(rpt.list, sel) # 0
    THEN Found(LookupByName(rpt.list, sel))
    ELSE NoneFound

\* cli.py:499-503: receiver lookup, then the client object
get_receiver_info ==
    /\ sendPc = "start"
    /\ receiverInfo' = ReceiverLookup(infos, receiver)
    /\ IF receiverInfo'.kind = "found"
       THEN /\ sendPc' = "ask"
            /\ report' = Append(report, "Asking receiver to accept ...")
       ELSE /\ sendPc' = "done"
            /\ UNCHANGED report
    /\ UNCHANGED <<is_url, receiver, infos, http_conn, connsCreated, post,
                   calls, returns, wire, respState, apiCalls>>

\* cli.py:504 -> client.py:776-816: the Ask body, then send_POST("/Ask")
send_ask ==
    /\ sendPc = "ask"
    /\ post_begin("/Ask")
    /\ sendPc' = "asking"
    /\ UNCHANGED <<is_url, receiver, infos, receiverInfo, report, http_conn, connsCreated,
                   returns, wire, respState, apiCalls>>

\* cli.py:504-508: the answer to Ask
ask_returned ==
    /\ sendPc = "asking"
    /\ post_end
    /\ IF Declined(send_ask_result(post.result))
       THEN /\ report' = Append(report, "Receiver declined")
            /\ sendPc' = "done"
       ELSE /\ report' = report \o <<"Receiver accepted", "Uploading file ...">>
            /\ sendPc' = "upload"
    /\ UNCHANGED <<is_url, receiver, infos, receiverInfo, http_conn, connsCreated, calls,
                   wire, respState, apiCalls>>

\* cli.py:509 -> client.py:905-927: nothing for a link, else the archive and
\* send_POST("/Upload")
send_upload ==
    /\ sendPc = "upload"
    /\ IF SkipsUpload(is_url)
       THEN /\ report' = Append(report,
                  IF UploadFailed("None") THEN "Uploading has failed"
                  ELSE "Uploading has been successful")
            /\ sendPc' = "done"
            /\ UNCHANGED <<post, calls>>
       ELSE /\ post_begin("/Upload")
            /\ sendPc' = "uploading"
            /\ UNCHANGED report
    /\ UNCHANGED <<is_url, receiver, infos, receiverInfo, http_conn, connsCreated, returns,
                   wire, respState, apiCalls>>

\* cli.py:509-512: the answer to Upload
upload_returned ==
    /\ sendPc = "uploading"
    /\ post_end
    /\ report' = Append(report,
          IF UploadFailed(IF post.result.ok THEN "True" ELSE "False")
          THEN "Uploading has failed"
          ELSE "Uploading has been successful")
    /\ sendPc' = "done"
    /\ UNCHANGED <<is_url, receiver, infos, receiverInfo, http_conn, connsCreated, calls,
                   wire, respState, apiCalls>>

InitSend ==
    /\ sendPc = "start"
    /\ is_url \in BOOLEAN
    /\ receiver \in Selectors
    /\ infos \in DiscoveryReports
    /\ receiverInfo = [kind |-> "unset", index |-> 0]
    /\ report = <<>>
    /\ InitClient

(***************************************************************************)
(* One AirDropClient called directly, in any order                         *)
(***************************************************************************)
\* send_discover, send_ask and send_upload of a file each make one
\* send_POST call; send_upload of a link makes none
client_call ==
    /\ sendPc = "off"
    /\ apiCalls < MaxCalls
    /\ apiCalls' = apiCalls + 1
    /\ \/ \E url \in Urls :
             /\ post_begin(url)
             /\ UNCHANGED returns
       \/ /\ post.pc = "idle"
          /\ SkipsUpload(TRUE)
          /\ UNCHANGED <<post, calls, returns>>
    /\ UNCHANGED <<sendPc, is_url, receiver, infos, receiverInfo, report, http_conn,
                   connsCreated, wire, respState>>

client_returned ==
    /\ sendPc = "off"
    /\ post_end
    /\ UNCHANGED <<sendPc, is_url, receiver, infos, receiverInfo, report, http_conn,
                   connsCreated, calls, wire, respState, apiCalls>>

InitApi ==
    /\ sendPc = "off"
    /\ is_url = FALSE
    /\ receiver = <<>>
    /\ infos = NoReport
    /\ receiverInfo = [kind |-> "unset", index |-> 0]
    /\ report = <<>>
    /\ InitClient
(***************************************************************************)
(* Receiver: requests as they arrive on one connection                     *)
(***************************************************************************)
\* str.lower() on the header values that occur
Lower(s) ==
    CASE s = "Application/X-CPIO" -> "application/x-cpio"
      [] s = "100-Continue" -> "100-continue"
      [] s = "Chunked" -> "chunked"
      [] s = "Keep-Alive" -> "keep-alive"
      [] s = "Close" -> "close"
      [] s = "/Discover" -> "/discover"
      [] s = "/Ask" -> "/ask"
      [] s = "/Upload" -> "/upload"
      [] s = "/Other" -> "/other"
      [] OTHER -> s

\* headers.get(name, ""): "" stands for a missing header
ContentTypes == {"application/x-cpio", "Application/X-CPIO",
                 "application/octet-stream", ""}
Expects == {"100-continue", "100-Continue", ""}
TransferEncodings == {"chunked", "Chunked", "identity", ""}
Connections == {"keep-alive", "close", ""}
\* request versions HTTP/1.0 and HTTP/1.1
Versions == {10, 11}

NoRequest ==
    [n |-> 0, method |-> "", version |-> 11, path |-> "", connection |-> "",
     contentType |-> "", expect |-> "", transferEncoding |-> "",
     hasLength |-> FALSE, body |-> ""]

UploadRequests ==
    [n : {0}, method : {"POST"}, version : Versions, path : {"/Upload"},
     connection : {"keep-alive"}, contentType : ContentTypes,
     expect : Expects, transferEncoding : TransferEncodings,
     hasLength : {FALSE}, body : {""}]

\* request paths besides /Upload
PlistPaths == {"/Discover", "/Ask", "/discover", "/Other"}

\* a body of declared length: a binary plist, or anything else
PlistBodies == {"bplist", "garbage"}

PlistRequests ==
    [n : {0}, method : {"POST"}, version : Versions, path : PlistPaths,
     connection : Connections, contentType : {"application/octet-stream"},
     expect : {""}, transferEncoding : {""}, hasLength : {TRUE},
     body : PlistBodies]
    \cup [n : {0}, method : {"POST"}, version : Versions, path : PlistPaths,
          connection : Connections, contentType : {"application/octet-stream"},
          expect : {""}, transferEncoding : {""}, hasLength : {FALSE},
          body : {""}]
    \cup [n : {0}, method : {"POST"}, version : Versions, path : PlistPaths,
          connection : {""}, contentType : {"application/octet-stream"},
          expect : {"100-continue"}, transferEncoding : {""},
          hasLength : {TRUE}, body : {"bplist"}]

Requests == UploadRequests \cup PlistRequests

\* requests of the other methods the handler answers, with the path and
\* the headers of an Upload that would be accepted
MethodRequests ==
    [n : {0}, method : {"GET", "HEAD"}, version : Versions,
     path : {"/Upload"}, connection : {""},
     contentType : {"application/x-cpio"}, expect : {""},
     transferEncoding : {"chunked"}, hasLength : {FALSE}, body : {""}]

\* the octets of an Upload body as the archive decoder sees them: "d" is
\* archive data, "E" the octet that ends the (self-delimiting) archive,
\* "x" an octet the decoder rejects
Octets == {"d", "E", "x"}

SeqsOfLen(n) == [1..n -> Octets]
SeqsUpTo(n) == UNION {SeqsOfLen(k) : k \in 0..n}

Min(a, b) == IF a < b THEN a ELSE b

(***************************************************************************)
(* AirDropServerHandler (BaseHTTPRequestHandler), server.py:206-409        *)
(***************************************************************************)
\* server.py:211
protocol_version == 11

\* a status line with the headers that matter: Connection: close, and the
\* Content-Length ("" none, "0", "body" the length of the body sent)
Resp(n, st, close, len) ==
    [n |-> n, status |-> st, connClose |-> close, contentLength |-> len]

NoReader == [none |-> TRUE, chunk |-> <<>>, total |-> 0, eof |-> FALSE,
             octetsRead |-> 0, framing |-> "ok"]

\* the receivers a connection can belong to
Configs ==
    {ConfigOf(name, Rep("a", 12), record) :
        name \in ComputerNames, record \in RecordData}

NoServiceInfo == [name |-> <<>>, port |-> 0, flags |-> <<>>]

\* an IPv6 address of the interface
LinkLocal == Str(<<"f", "e", "8", "0", ":", ":", "1">>)

InitNoStart ==
    /\ busyPorts = {}
    /\ http_server = 0
    /\ service_info = NoServiceInfo
    /\ startPc = "off"
    /\ ip_addr = NoneVal
    /\ zeroconf = "none"
    /\ action = "off"

\* the peers that connect to the receiver
Peers == 1..MaxPeers

NewPeer == [pc |-> "new", sent |-> 0, served |-> 0]

InitRequestHandler ==
    /\ current = 0
    /\ backlog = <<>>
    /\ peers = [p \in Peers |-> NewPeer]
    /\ srvPc = "idle"
    /\ req = NoRequest
    /\ responses = <<>>
    /\ close_connection = FALSE
    /\ reader = NoReader
    /\ extract = "idle"
    /\ handled = 0
    /\ handler = ""
    /\ post_data = "unread"
    /\ wfile = <<>>

InitHandler == InitRequestHandler /\ InitNoStart

InitServer ==
    /\ InitHandler
    /\ config = ConfigOf(Test, Rep("a", 12), NoneVal)

\* the next request line and headers arrive on the open connection
receive_request(r) ==
    /\ srvPc = "idle"
    /\ handled < MaxRequests
    /\ req' = [r EXCEPT !.n = handled + 1]
    /\ srvPc' = "parse"
    /\ reader' = NoReader
    /\ extract' = "idle"
    /\ handler' = ""
    /\ post_data' = "unread"
    /\ UNCHANGED <<responses, close_connection, handled, config, wfile>>

\* The handler is a BaseHTTPRequestHandler with protocol_version HTTP/1.1
\* (server.py:206-211): before do_POST runs, the inherited parse_request
\* sets close_connection from the version and the Connection header and
\* answers Expect: 100-continue of an HTTP/1.1 request with an interim 100.
BaseSends100(r) ==
    /\ Lower(r.expect) = "100-continue"
    /\ protocol_version >= 11
    /\ r.version >= 11

\* a handler that closes after every request
KeepAlive_never(r) == FALSE

KeepAlive(r) ==
    IF Lower(r.connection) = "close" THEN FALSE
    ELSE IF Lower(r.connection) = "keep-alive" /\ protocol_version >= 11
    THEN TRUE
    ELSE r.version >= 11 /\ protocol_version >= 11

parse_request ==
    /\ srvPc = "parse"
    /\ close_connection' = ~KeepAlive(req)
    /\ responses' = IF BaseSends100(req)
                    THEN Append(responses, Resp(req.n, 100, FALSE, ""))
                    ELSE responses
    /\ srvPc' = "dispatch"
    /\ UNCHANGED <<req, reader, extract, handled, config, handler, post_data,
                   wfile>>

\* server.py:320
IsCpio(r) == Lower(r.contentType) = "application/x-cpio"

\* server.py:332
Expects100(r) == Lower(r.expect) = "100-continue"

\* a check that only asks for some Transfer-Encoding header
IsChunked_any(r) == r.transferEncoding # ""

\* server.py:337
IsChunked(r) == Lower(r.transferEncoding) = "chunked"

\* handle_upload up to the reader, server.py:320-344: the responses it
\* emits, in order
UploadHead(r) ==
    IF ~IsCpio(r) THEN <<Resp(r.n, 406, TRUE, "0")>>
    ELSE (IF Expects100(r) THEN <<Resp(r.n, 100, FALSE, "0")>> ELSE <<>>)
         \o (IF ~IsChunked(r) THEN <<Resp(r.n, 400, TRUE, "0")>> ELSE <<>>)

\* a handler that goes on after either rejection
UploadProceeds_cpio(r) == IsCpio(r) \/ IsChunked(r)

\* does handle_upload go on to extract_stream?
UploadProceeds(r) == IsCpio(r) /\ IsChunked(r)

\* server.py:247-277: json of {"Version": 1}, as bytes
MediaCapabilities == Bytes(<<"{\"Version\": 1}">>)

\* a handler that always sends the record field
IncludesRecord_always(record_data) == TRUE

\* server.py:283: if self.config.record_data
IncludesRecord(record_data) == Truthy(record_data)

\* handle_discover, server.py:278-284: the answer before plistlib.dumps
discover_answer(cfg) ==
    IF IncludesRecord(cfg.record_data)
    THEN [ReceiverMediaCapabilities |-> MediaCapabilities,
          ReceiverComputerName |-> Str(cfg.computer_name),
          ReceiverModelName |-> Str(cfg.computer_model),
          ReceiverRecordData |-> cfg.record_data]
    ELSE [ReceiverMediaCapabilities |-> MediaCapabilities,
          ReceiverComputerName |-> Str(cfg.computer_name),
          ReceiverModelName |-> Str(cfg.computer_model)]

\* handle_ask, server.py:304-307
ask_response(cfg) ==
    [ReceiverModelName |-> Str(cfg.computer_model),
     ReceiverComputerName |-> Str(cfg.computer_name)]

\* a dispatch that ignores the case of the path
Route_nocase(path) ==
    CASE Lower(path) = "/discover" -> "handle_discover"
      [] Lower(path) = "/ask" -> "handle_ask"
      [] Lower(path) = "/upload" -> "handle_upload"
      [] OTHER -> "none"

\* do_POST, server.py:399-405: the handler of a path
Route(path) ==
    CASE path = "/Discover" -> "handle_discover"
      [] path = "/Ask" -> "handle_ask"
      [] path = "/Upload" -> "handle_upload"
      [] OTHER -> "none"

\* a handler that decodes the request body before it answers
plist_handler_decoding(answer) ==
    IF req.hasLength /\ req.body = "bplist"
    THEN /\ post_data' = req.body
         /\ responses' = Append(responses, Resp(req.n, 200, FALSE, "body"))
         /\ wfile' = Append(wfile, [n |-> req.n, plist |-> answer])
         /\ srvPc' = "finish"
    ELSE /\ srvPc' = "error"
         /\ UNCHANGED <<responses, post_data, wfile>>

\* handle_discover / handle_ask, server.py:240-241, 295-296 and 299-300,
\* 316-317: int(self.headers["Content-Length"]) raises without the header;
\* else the body is read and the answer written after a 200
plist_handler(answer) ==
    IF req.hasLength
    THEN /\ post_data' = req.body
         /\ responses' = Append(responses, Resp(req.n, 200, FALSE, "body"))
         /\ wfile' = Append(wfile, [n |-> req.n, plist |-> answer])
         /\ srvPc' = "finish"
    ELSE /\ srvPc' = "error"
         /\ UNCHANGED <<responses, post_data, wfile>>

\* do_POST, server.py:399-409, with handle_discover, handle_ask and the
\* head of handle_upload
do_POST ==
    /\ srvPc = "dispatch"
    /\ req.method = "POST"
    /\ handler' = Route(req.path)
    /\ CASE handler' = "handle_discover" ->
               /\ plist_handler(discover_answer(config))
               /\ UNCHANGED <<close_connection, reader, extract>>
         [] handler' = "handle_ask" ->
               /\ plist_handler(ask_response(config))
               /\ UNCHANGED <<close_connection, reader, extract>>
         [] handler' = "handle_upload" ->
               /\ responses' = responses \o UploadHead(req)
               /\ IF UploadProceeds(req)
                  THEN /\ srvPc' = "extract"
                       /\ reader' = [NoReader EXCEPT !.none = TRUE]
                       /\ extract' = "reading"
                       /\ UNCHANGED close_connection
                  ELSE /\ srvPc' = "finish"
                       /\ close_connection' = TRUE
                       /\ UNCHANGED <<reader, extract>>
               /\ UNCHANGED <<post_data, wfile>>
         [] OTHER ->
               /\ responses' = Append(responses, Resp(req.n, 400, FALSE, "0"))
               /\ srvPc' = "finish"
               /\ UNCHANGED <<close_connection, reader, extract, post_data,
                              wfile>>
    /\ UNCHANGED <<req, handled, config>>

\* do_HEAD, server.py:221-227
do_HEAD ==
    /\ srvPc = "dispatch"
    /\ req.method = "HEAD"
    /\ responses' = Append(responses, Resp(req.n, 200, FALSE, ""))
    /\ srvPc' = "finish"
    /\ UNCHANGED <<req, close_connection, reader, extract, handled, config,
                   handler, post_data, wfile>>

\* do_GET, server.py:229-236: 200 and a body of one line feed
do_GET ==
    /\ srvPc = "dispatch"
    /\ req.method = "GET"
    /\ responses' = Append(responses, Resp(req.n, 200, FALSE, "body"))
    /\ wfile' = Append(wfile, [n |-> req.n, plist |-> Bytes(<<"\n">>)])
    /\ srvPc' = "finish"
    /\ UNCHANGED <<req, close_connection, reader, extract, handled, config,
                   handler, post_data>>

\* a reader that fetches a chunk on every call
NeedsNextChunk_always(rd) == TRUE

\* HTTPChunkedReader._next_chunk, server.py:354
NeedsNextChunk(rd) == rd.none \/ Len(rd.chunk) = 0

\* what the archive decoder makes of the octets one readinto call gave it:
\* "failed" on a rejected octet or on end of input before the archive's
\* end, "ok" at the archive's end, else it reads on
RECURSIVE Decode(_)
Decode(block) ==
    IF block = <<>> THEN "reading"
    ELSE IF Head(block) = "x" THEN "failed"
    ELSE IF Head(block) = "E" THEN "ok"
    ELSE Decode(Tail(block))

DecodeRead(block) == IF block = <<>> THEN "failed" ELSE Decode(block)

\* a handler that swallows the exception of extract_stream
AfterExtract_swallow(status) ==
    CASE status = "reading" -> "extract"
      [] OTHER -> "respond"

\* extract_stream returned or raised: what handle_upload does next
AfterExtract(status) ==
    CASE status = "ok" -> "respond"
      [] status = "failed" -> "error"
      [] OTHER -> "extract"

\* HTTPChunkedReader.readinto, server.py:359-365, on the chunk it holds
Deliver(rd, chunk, eof, read) ==
    LET length == Min(Len(chunk), BlockSize)
        status == DecodeRead(SubSeq(chunk, 1, length))
    IN /\ reader' = [none |-> FALSE,
                     chunk |-> SubSeq(chunk, length + 1, Len(chunk)),
                     total |-> rd.total + length,
                     eof |-> eof,
                     octetsRead |-> rd.octetsRead + read,
                     framing |-> IF eof THEN "malformed" ELSE rd.framing]
       /\ extract' = status
       /\ srvPc' = AfterExtract(status)

\* one readinto call made by the archive decoder inside extract_stream,
\* server.py:353-378.  A chunk-size line that is not hexadecimal, or the
\* empty line read at end of input, makes int(..., 16) raise.
readinto ==
    /\ srvPc = "extract"
    /\ IF NeedsNextChunk(reader)
       THEN \/ /\ extract' = "failed"
               /\ srvPc' = AfterExtract("failed")
               /\ \/ reader' = [reader EXCEPT !.eof = TRUE,
                                                !.framing = "malformed"]
                  \/ /\ ~reader.eof
                     /\ reader' = [reader EXCEPT
                                     !.octetsRead = reader.octetsRead + 1,
                                     !.framing = "malformed"]
            \/ /\ ~reader.eof
               /\ \E n \in 0..MaxChunkLen :
                     /\ reader.total + n <= MaxBody
                     /\ \E data \in SeqsUpTo(n) :
                           Deliver(reader, data, Len(data) < n,
                                   1 + Len(data))
       ELSE Deliver(reader, reader.chunk, reader.eof, 0)
    /\ UNCHANGED <<req, responses, close_connection, handled, config, handler,
                   post_data, wfile>>

\* handle_upload after extract_stream, server.py:380-389
upload_respond ==
    /\ srvPc = "respond"
    /\ responses' = Append(responses, Resp(req.n, 200, TRUE, "0"))
    /\ close_connection' = TRUE
    /\ srvPc' = "finish"
    /\ UNCHANGED <<req, reader, extract, handled, config, handler, post_data,
                   wfile>>

\* handle_one_request returns: the connection is kept or closed
finish_request ==
    /\ srvPc = "finish"
    /\ handled' = handled + 1
    /\ srvPc' = IF close_connection THEN "closed" ELSE "idle"
    /\ UNCHANGED <<req, responses, close_connection, reader, extract, config,
                   handler, post_data, wfile>>

\* an exception left the handler: socketserver closes the connection
handler_raised ==
    /\ srvPc = "error"
    /\ handled' = handled + 1
    /\ srvPc' = "closed"
    /\ UNCHANGED <<req, responses, close_connection, reader, extract, config,
                   handler, post_data, wfile>>

(***************************************************************************)
(* HTTPServerV6, server.py:202-203: an http.server.HTTPServer, whose       *)
(* serve_forever (server.py:188-190) accepts a connection and runs the     *)
(* handler on it, in the same thread, until the connection is closed,      *)
(* before it accepts the next one.  The handler sets no timeout.           *)
(***************************************************************************)
\* requests served to the peer p
ServedOf(p) == IF p = current THEN handled ELSE peers[p].served

\* the peer p has sent a request that is not answered
Pending(p) == peers[p].sent > ServedOf(p)

\* the Discover and Ask requests of a peer
PeerRequests ==
    [n : {0}, method : {"POST"}, version : {11},
     path : {"/Discover", "/Ask"}, connection : {"keep-alive", "close"},
     contentType : {"application/octet-stream"}, expect : {""},
     transferEncoding : {""}, hasLength : {TRUE}, body : {"bplist"}]

\* a peer connects: the connection waits in the listen queue
connect(p) ==
    /\ peers[p].pc = "new"
    /\ peers' = [peers EXCEPT ![p].pc = "open"]
    /\ backlog' = Append(backlog, p)
    /\ UNCHANGED <<current, serverVars>>

\* a peer sends its next request on its connection, unless its last
\* request asked for the connection to be closed
send_request(p) ==
    /\ peers[p].pc = "open"
    /\ ~Pending(p)
    /\ ~(p = current /\ srvPc = "closed")
    /\ peers[p].sent < MaxRequests
    /\ peers' = [peers EXCEPT ![p].sent = @ + 1]
    /\ UNCHANGED <<current, backlog, serverVars>>

\* a peer with no request outstanding closes its connection
peer_close(p) ==
    /\ peers[p].pc = "open"
    /\ ~Pending(p)
    /\ peers' = [peers EXCEPT ![p].pc = "closed"]
    /\ UNCHANGED <<current, backlog, serverVars>>

\* serve_forever with no connection in hand: accept the first connection
\* of the listen queue and construct the handler on it
get_request ==
    /\ current = 0
    /\ backlog # <<>>
    /\ current' = Head(backlog)
    /\ backlog' = Tail(backlog)
    /\ srvPc' = "idle"
    /\ req' = NoRequest
    /\ responses' = <<>>
    /\ close_connection' = FALSE
    /\ reader' = NoReader
    /\ extract' = "idle"
    /\ handled' = 0
    /\ handler' = ""
    /\ post_data' = "unread"
    /\ wfile' = <<>>
    /\ UNCHANGED <<peers, config>>

\* the handler reads the request its peer has sent
read_request(r) ==
    /\ current # 0
    /\ Pending(current)
    /\ receive_request(r)
    /\ UNCHANGED acceptVars

\* the handler reads the end of the stream: the peer has closed
read_eof ==
    /\ current # 0
    /\ srvPc = "idle"
    /\ peers[current].pc = "closed"
    /\ srvPc' = "closed"
    /\ UNCHANGED <<req, responses, close_connection, reader, extract, handled,
                   config, handler, post_data, wfile, acceptVars>>

\* a serve loop that keeps the connection it has handled
AfterConnection_kept(p) == p

\* socketserver: shutdown_request, then back to accepting
AfterConnection(p) == 0

\* handle() has returned: the connection is closed
shutdown_request ==
    /\ current # 0
    /\ srvPc = "closed"
    /\ peers' = [peers EXCEPT ![current].pc = "closed",
                              ![current].served = handled]
    /\ current' = AfterConnection(current)
    /\ UNCHANGED <<backlog, serverVars>>

(***************************************************************************)
(* HTTPSConnectionAWDL.__init__, client.py:953-987                         *)
(***************************************************************************)
\* hosts as texts: IPv6 literals with and without a zone, an IPv4
\* literal, names, and texts with "%" that are no address at all
Hosts ==
    {<<"f", "e", "8", "0", ":", ":", "1">>,
     <<":", ":", "1">>,
     <<"f", "e", "8", "0", ":", ":", "a", ":", "b">>,
     <<"f", "e", "8", "0", ":", ":", "1", "%", "e", "n", "0">>,
     <<"f", "e", "8", "0", ":", ":", "1", "%">>,
     <<"%", "e", "n", "0">>,
     <<"1", ".", "2", ".", "3", ".", "4">>,
     <<"h", "o", "s", "t">>,
     <<"h", "%", "o">>,
     <<>>}

\* config.interface; the connection class also takes None
InterfaceNames ==
    {NoneVal, Str(<<"a", "w", "d", "l", "0">>), Str(<<"e", "n", "0">>),
     Str(<<>>)}

\* "%" in host
HasPercent(h) == \E i \in 1..Len(h) : h[i] = "%"

\* ipaddress.ip_address(host) on the texts above: an IPv6 address has
\* hexadecimal groups and colons, an IPv4 address decimal groups and dots;
\* anything else raises ValueError
IsIPv6Address(h) ==
    /\ \E i \in 1..Len(h) : h[i] = ":"
    /\ \A i \in 1..Len(h) :
          h[i] = ":" \/ h[i] \in {"a", "b", "c", "d", "e", "f"}
             \/ DigitVal(h[i]) < 10

IsIPv4Address(h) ==
    /\ \E i \in 1..Len(h) : h[i] = "."
    /\ DigitVal(h[1]) < 10
    /\ DigitVal(h[Len(h)]) < 10
    /\ \A i \in 1..Len(h) : h[i] = "." \/ DigitVal(h[i]) < 10

\* a rule that scopes whatever host it gets
ScopedHost_always(h, iface) ==
    IF iface = NoneVal THEN [raised |-> FALSE, host |-> h]
    ELSE [raised |-> FALSE, host |-> h \o <<"%">> \o iface.val]

\* client.py:967-970: the host the connection is built with
ScopedHost(h, iface) ==
    IF iface = NoneVal \/ HasPercent(h) THEN [raised |-> FALSE, host |-> h]
    ELSE IF IsIPv6Address(h)
    THEN [raised |-> FALSE, host |-> h \o <<"%">> \o iface.val]
    ELSE IF IsIPv4Address(h) THEN [raised |-> FALSE, host |-> h]
    ELSE [raised |-> TRUE, host |-> h]

InitNoConnection ==
    /\ host = <<>>
    /\ interface_name = NoneVal
    /\ connHost = <<>>
    /\ connPc = "off"

\* a connection object is constructed with the host of the one before
construct_connection ==
    /\ connPc \in {"new", "once"}
    /\ LET made == ScopedHost(connHost, interface_name)
       IN /\ connHost' = made.host
          /\ connPc' = IF made.raised THEN "raised"
                       ELSE IF connPc = "new" THEN "once" ELSE "twice"
    /\ UNCHANGED <<host, interface_name>>

(***************************************************************************)
(* HTTPChunkedReader on the octets of a chunked body, server.py:346-365    *)
(***************************************************************************)
CR == "CR"
LF == "LF"
CRLF == <<CR, LF>>

\* int(text, 16) on the digits that occur in a chunk-size line
HexDigitVal(c) ==
    CASE c = "0" -> 0 [] c = "1" -> 1 [] c = "2" -> 2 [] c = "3" -> 3
      [] c = "4" -> 4 [] c = "5" -> 5 [] c = "6" -> 6 [] c = "7" -> 7
      [] c = "8" -> 8 [] c = "9" -> 9
      [] c \in {"a", "A"} -> 10 [] c \in {"b", "B"} -> 11
      [] c \in {"c", "C"} -> 12 [] c \in {"d", "D"} -> 13
      [] c \in {"e", "E"} -> 14 [] c \in {"f", "F"} -> 15
      [] OTHER -> 16

IsHex(s) == s # <<>> /\ \A i \in 1..Len(s) : HexDigitVal(s[i]) < 16

RECURSIVE HexValue(_, _)
HexValue(s, acc) ==
    IF s = <<>> THEN acc
    ELSE HexValue(Tail(s), IF acc >= Huge THEN acc
                           ELSE acc * 16 + HexDigitVal(Head(s)))

\* bytes.rstrip(): trailing whitespace goes
RECURSIVE RStrip(_)
RStrip(s) ==
    IF s # <<>> /\ s[Len(s)] \in {CR, LF, " "}
    THEN RStrip(SubSeq(s, 1, Len(s) - 1))
    ELSE s

Drop(s, n) == SubSeq(s, n + 1, Len(s))
Take(s, n) == SubSeq(s, 1, Min(n, Len(s)))

\* rfile.readline(): up to and with the first LF, or all that is left
ReadLine(s) ==
    IF \E i \in 1..Len(s) : s[i] = LF
    THEN SubSeq(s, 1, CHOOSE i \in 1..Len(s) :
                         s[i] = LF /\ \A j \in 1..(i - 1) : s[j] # LF)
    ELSE s

\* a well-formed chunked body: for each chunk its length in hexadecimal,
\* CRLF, the payload, CRLF; then the zero-length chunk
HexChar(d, upper) ==
    IF upper
    THEN <<"0", "1", "2", "3", "4", "5", "6", "7", "8", "9",
           "A", "B", "C", "D", "E", "F">>[d + 1]
    ELSE <<"0", "1", "2", "3", "4", "5", "6", "7", "8", "9",
           "a", "b", "c", "d", "e", "f">>[d + 1]

RECURSIVE HexString(_, _)
HexString(n, upper) ==
    IF n < 16 THEN <<HexChar(n, upper)>>
    ELSE HexString(n \div 16, upper) \o <<HexChar(n % 16, upper)>>

RECURSIVE Concat(_)
Concat(seqs) == IF seqs = <<>> THEN <<>> ELSE Head(seqs) \o Concat(Tail(seqs))

RECURSIVE ChunkedBody(_, _)
ChunkedBody(ps, upper) ==
    IF ps = <<>> THEN <<"0">> \o CRLF \o CRLF
    ELSE HexString(Len(Head(ps)), upper) \o CRLF \o Head(ps) \o CRLF
         \o ChunkedBody(Tail(ps), upper)

\* payloads of 1, 3, 11 and 16 octets; one holds an LF
Payloads ==
    {<<"p">>, <<"q", LF, "r">>,
     <<"0", "1", "2", "3", "4", "5", "6", "7", "8", "9", "a">>,
     Rep("z", 16)}

PayloadLists == UNION {[1..k -> Payloads] : k \in 0..MaxChunks}

\* HTTPChunkedReader.__init__, server.py:347-351
NewReader == [none |-> TRUE, chunk |-> <<>>, total |-> 0]

\* _next_chunk, server.py:353-357: the chunk held after it, what is left
\* of rfile, and whether int(..., 16) raised
NextChunk(rd, f) ==
    IF ~NeedsNextChunk(rd)
    THEN [raised |-> FALSE, chunk |-> rd.chunk, f |-> f]
    ELSE LET line == ReadLine(f)
             digits == RStrip(line)
             rest == Drop(f, Len(line))
         IN IF ~IsHex(digits)
            THEN [raised |-> TRUE, chunk |-> rd.chunk, f |-> rest]
            ELSE LET chunk == Take(rest, HexValue(digits, 0))
                     after == Drop(rest, Len(chunk))
                 IN [raised |-> FALSE, chunk |-> chunk,
                     f |-> Drop(after, Len(ReadLine(after)))]

InitReader ==
    /\ payloads = <<>>
    /\ rfile = <<>>
    /\ chunked = NewReader
    /\ returned = <<>>
    /\ lastLength = -1
    /\ readPc = "reading"
    /\ file = [path |-> <<>>, content |-> <<>>]
    /\ archive = <<>>
    /\ cwd = <<>>
    /\ created = {}
    /\ xferPc = "off"
    /\ uploadOk = "none"
    /\ InitNoConnection

\* readinto(buf), server.py:359-365, for a buffer of size octets
ReadInto(size) ==
    /\ LET next == NextChunk(chunked, rfile)
           length == Min(Len(next.chunk), size)
       IN IF next.raised
          THEN /\ readPc' = "raised"
               /\ rfile' = next.f
               /\ UNCHANGED <<chunked, returned, lastLength>>
          ELSE /\ rfile' = next.f
               /\ chunked' = [none |-> FALSE,
                              chunk |-> Drop(next.chunk, length),
                              total |-> chunked.total + length]
               /\ returned' = returned \o Take(next.chunk, length)
               /\ lastLength' = length
               /\ readPc' = IF length = 0 THEN "zero" ELSE "reading"
    /\ UNCHANGED payloads

\* a readinto call of the archive decoder, which stops calling at the
\* first 0
reader_readinto(size) ==
    /\ readPc = "reading"
    /\ ReadInto(size)

\* a readinto call made after one that returned 0
read_after_end(size) ==
    /\ readPc = "zero"
    /\ ReadInto(size)

(***************************************************************************)
(* One file from send_upload (client.py:905-931) to handle_upload          *)
(* (server.py:319-389).  The archive codec (libarchive with the            *)
(* repository's AbsArchiveWrite, util.py) is taken from the                *)
(* specification: entries stored under their archive path with their       *)
(* exact content, the stream self-delimiting.                              *)
(***************************************************************************)
\* a path is the sequence of its components
SenderPaths == {<<"home", "u", "a.txt">>, <<"a.txt">>, <<"b", "c.png">>}

\* file contents, one that reads like the end of a chunked body
Contents ==
    {<<>>, <<"x">>, <<"TRAILER", LF>>, <<CR, LF, "0", CR, LF, CR, LF>>}

\* the receiver's working directory before the transfer
NoFiles == [p \in {} |-> <<>>]
Directories == {NoFiles, [p \in {<<"a.txt">>} |-> <<"o", "l", "d">>]}

\* os.path.basename for a path that does not end in a separator
Basename(path) == path[Len(path)]

\* a sender that stores the file under the path it was given
store_path_given(f) == <<".">> \o f

\* client.py:922-923: os.path.join(".", os.path.basename(f))
store_path(f) == <<".", Basename(f)>>

\* the archive of one entry: its path, its size, its content, the trailer
Pack(path, content) ==
    <<"ENTRY">> \o path \o <<"NUL">> \o HexString(Len(content), FALSE)
       \o <<"NUL">> \o content \o <<"TRAILER">>

\* position of the first NUL of s after position from, 0 when none
NulAfter(s, from) ==
    IF \E i \in (from + 1)..Len(s) : s[i] = "NUL"
    THEN CHOOSE i \in (from + 1)..Len(s) :
            s[i] = "NUL" /\ \A j \in (from + 1)..(i - 1) : s[j] # "NUL"
    ELSE 0

\* what the decoder makes of the octets read so far
Unpack(s) ==
    LET n1 == NulAfter(s, 1)
        n2 == IF n1 = 0 THEN 0 ELSE NulAfter(s, n1)
        size == IF n2 = 0 THEN 0 ELSE HexValue(SubSeq(s, n1 + 1, n2 - 1), 0)
    IN IF s # <<>> /\ Head(s) # "ENTRY"
       THEN [state |-> "failed", path |-> <<>>, content |-> <<>>]
       ELSE IF n2 = 0 \/ Len(s) < n2 + size + 1
       THEN [state |-> "reading", path |-> <<>>, content |-> <<>>]
       ELSE IF s[n2 + size + 1] # "TRAILER"
       THEN [state |-> "failed", path |-> <<>>, content |-> <<>>]
       ELSE [state |-> "ok", path |-> SubSeq(s, 2, n1 - 1),
             content |-> SubSeq(s, n2 + 1, n2 + size)]

\* an entry path resolved under the working directory
RECURSIVE Resolve(_)
Resolve(path) ==
    IF path = <<>> THEN <<>>
    ELSE IF Head(path) = "." THEN Resolve(Tail(path))
    ELSE <<Head(path)>> \o Resolve(Tail(path))

\* the blocks http.client reads of a streamed body, one chunk each
RECURSIVE Blocks(_, _)
Blocks(s, n) ==
    IF s = <<>> THEN <<>> ELSE <<Take(s, n)>> \o Blocks(Drop(s, n), n)

\* the Upload request as send_upload and send_POST build it: the headers
\* of client.py:909-911 and 937-944, and Transfer-Encoding: chunked, which
\* http.client sets for a body that is a stream without Content-Length
ClientUpload ==
    [n |-> 1, version |-> 11, path |-> "/Upload", connection |-> "keep-alive",
     contentType |-> "application/x-cpio", expect |-> "",
     transferEncoding |-> "chunked", hasLength |-> FALSE, body |-> ""]

\* send_upload, client.py:909-924: the archive in memory
create_archive ==
    /\ xferPc = "start"
    /\ archive' = Pack(store_path(file.path), file.content)
    /\ xferPc' = "post"
    /\ UNCHANGED <<file, cwd, created, uploadOk, chunkVars, serverVars>>

\* send_upload, client.py:927 -> send_POST, client.py:587: the request
\* with its chunked body goes to the receiver
post_upload ==
    /\ xferPc = "post"
    /\ payloads' = Blocks(archive, ClientBlock)
    /\ rfile' = ChunkedBody(payloads', TRUE)
    /\ req' = ClientUpload
    /\ srvPc' = "dispatch"
    /\ xferPc' = "head"
    /\ UNCHANGED <<file, archive, cwd, created, uploadOk, chunked, returned,
                   lastLength, readPc, responses, close_connection, reader,
                   extract, handled, config, handler, post_data, wfile>>

\* handle_upload, server.py:320-344 and 377: the header checks, then the
\* reader
upload_head ==
    /\ xferPc = "head"
    /\ handler' = Route(req.path)
    /\ responses' = responses \o UploadHead(req)
    /\ IF handler' = "handle_upload" /\ UploadProceeds(req)
       THEN /\ extract' = "reading"
            /\ srvPc' = "extract"
            /\ xferPc' = "extract"
            /\ UNCHANGED <<uploadOk, close_connection>>
       ELSE /\ close_connection' = TRUE
            /\ srvPc' = "finish"
            /\ xferPc' = "done"
            /\ uploadOk' = "False"
            /\ UNCHANGED extract
    /\ UNCHANGED <<file, archive, cwd, created, chunkVars, req, reader,
                   handled, config, post_data, wfile>>

\* extract_stream, server.py:367-378: the decoder reads through
\* HTTPChunkedReader.readinto and writes the entry under the working
\* directory; it fails when the reader raises or the stream ends early
extract_read(size) ==
    /\ xferPc = "extract"
    /\ reader_readinto(size)
    /\ LET parsed == Unpack(returned')
       IN IF readPc' = "raised" \/ parsed.state = "failed"
             \/ (parsed.state = "reading" /\ readPc' = "zero")
          THEN /\ extract' = "failed"
               /\ srvPc' = "error"
               /\ xferPc' = "done"
               /\ uploadOk' = "False"
               /\ UNCHANGED <<cwd, created>>
          ELSE IF parsed.state = "ok"
          THEN /\ cwd' = [p \in DOMAIN cwd \cup {Resolve(parsed.path)} |->
                            IF p = Resolve(parsed.path) THEN parsed.content
                            ELSE cwd[p]]
               /\ created' = created \cup {Resolve(parsed.path)}
               /\ extract' = "ok"
               /\ srvPc' = "respond"
               /\ xferPc' = "respond"
               /\ UNCHANGED uploadOk
          ELSE UNCHANGED <<cwd, created, extract, srvPc, xferPc, uploadOk>>
    /\ UNCHANGED <<file, archive, req, responses, close_connection, reader,
                   handled, config, handler, post_data, wfile>>

\* handle_upload, server.py:386-389, and send_POST's return to
\* send_upload, client.py:596-602 and 927-931
upload_done ==
    /\ xferPc = "respond"
    /\ responses' = Append(responses, Resp(req.n, 200, TRUE, "0"))
    /\ close_connection' = TRUE
    /\ srvPc' = "finish"
    /\ uploadOk' = IF StatusOk(200) THEN "True" ELSE "False"
    /\ xferPc' = "done"
    /\ UNCHANGED <<file, archive, cwd, created, chunkVars, req, reader,
                   extract, handled, config, handler, post_data, wfile>>

(***************************************************************************)
(* AirDropServer.__init__ and start_service (server.py:43-88, 164-187):    *)
(* the HTTPS server is bound first, then the ServiceInfo is built from the *)
(* config the binding may have changed, then the service is registered.    *)
(***************************************************************************)
\* ports near the default that other programs may hold
PortsNear == {server_port, server_port + 1, server_port + 2}

\* _init_server, server.py:171-177: the ports a bind is attempted on
PortsTried_one(port) == <<port>>

PortsTried(port) == <<port, port + 1>>

\* _init_server, server.py:170-187: a bind on a port in use raises OSError;
\* the handler of the first one moves config.port on and binds once more,
\* the second OSError leaves __init__
init_server ==
    /\ startPc = "new"
    /\ LET tried == PortsTried(config.port)
           free == {i \in 1..Len(tried) : tried[i] \notin busyPorts}
           first == CHOOSE i \in free : \A j \in free : i <= j
       IN  IF free = {}
           THEN /\ config' = [config EXCEPT !.port = tried[Len(tried)]]
                /\ http_server' = 0
                /\ startPc' = "failed"
           ELSE /\ config' = [config EXCEPT !.port = tried[first]]
                /\ http_server' = tried[first]
                /\ startPc' = "bound"
    /\ UNCHANGED <<busyPorts, service_info, ip_addr, zeroconf, action>>

\* _init_service, server.py:78: the mDNS instance name
InstanceName(id) ==
    id \o <<".", "_", "a", "i", "r", "d", "r", "o", "p", ".", "_", "t", "c",
            "p", ".", "l", "o", "c", "a", "l", ".">>

\* _init_service, server.py:83: the advertised port
AdvertisedPort_default(cfg) == server_port

AdvertisedPort(cfg) == cfg.port

\* get_properties, server.py:197-199: the TXT record's flags value
get_properties(cfg) == DecString(cfg.flags)

\* _init_service, server.py:76-88
init_service ==
    /\ startPc = "bound"
    /\ service_info' = [name |-> InstanceName(config.service_id),
                        port |-> AdvertisedPort(config),
                        flags |-> get_properties(config)]
    /\ startPc' = "built"
    /\ UNCHANGED <<busyPorts, http_server, config, ip_addr, zeroconf, action>>

\* start_service, server.py:164-168: register_service(self.service_info)
start_service ==
    /\ startPc = "built"
    /\ startPc' = "registered"
    /\ zeroconf' = "announcing"
    /\ UNCHANGED <<busyPorts, http_server, service_info, config, ip_addr,
                   action>>

\* start_server, server.py:188-190: serve_forever() runs in the main thread
start_server ==
    /\ startPc = "registered"
    /\ startPc' = "serving"
    /\ UNCHANGED <<busyPorts, http_server, service_info, config, ip_addr,
                   zeroconf, action>>

\* the interrupt handler of AirDropCli.__init__ with self.server set
\* (cli.py:164-168) and AirDropServer.stop, server.py:192-194:
\* unregister_all_services(), then http_server.shutdown().  shutdown()
\* waits for the event that serve_forever sets when it leaves its loop: an
\* interrupted serve_forever has set it, a server that never got to
\* serve_forever never sets it and the main thread waits for ever
stop_server ==
    /\ startPc \in {"built", "registered", "serving"}
    /\ zeroconf' = "open"
    /\ IF startPc = "serving"
       THEN /\ startPc' = "stopped"
            /\ http_server' = 0
       ELSE /\ startPc' = "hung"
            /\ UNCHANGED http_server
    /\ UNCHANGED <<busyPorts, service_info, config, ip_addr, action>>

\* a constructor that goes on without an address
InterfaceUnavailable_never(ip) == FALSE

\* server.py:54 and client.py:276: if self.ip_addr is None
InterfaceUnavailable(ip) == ip = NoneVal

\* AirDropServer.__init__ up to the mDNS engine, server.py:43-72: without
\* an address RuntimeError leaves the constructor, else Zeroconf is created
server_init ==
    /\ action = "receive"
    /\ startPc = "init"
    /\ IF InterfaceUnavailable(ip_addr)
       THEN /\ startPc' = "raised"
            /\ UNCHANGED zeroconf
       ELSE /\ startPc' = "new"
            /\ zeroconf' = "open"
    /\ UNCHANGED <<busyPorts, http_server, service_info, config, ip_addr,
                   action>>

\* the interrupt handler of AirDropCli.__init__ while the constructor of
\* the server has not returned (cli.py:164-168, self.server is None):
\* nothing is stopped, the process ends and with it its sockets
interrupt_receive ==
    /\ action = "receive"
    /\ startPc \in {"init", "new", "bound"}
    /\ startPc' = "ended"
    /\ http_server' = 0
    /\ zeroconf' = IF zeroconf = "none" THEN "none" ELSE "closed"
    /\ UNCHANGED <<busyPorts, service_info, config, ip_addr, action>>

\* AirDropBrowser.__init__, client.py:274-292, called by find, cli.py:203
browser_init ==
    /\ action = "find"
    /\ browser = "none"
    /\ browser' = IF InterfaceUnavailable(ip_addr) THEN "raised"
                  ELSE "constructed"
    /\ UNCHANGED <<discover, appendedBy, lock, threads, services,
                   discovery_report>>

\* AirDropBrowser.start, client.py:307-348, called by find, cli.py:204
browser_start ==
    /\ browser = "constructed"
    /\ browser' = "running"
    /\ UNCHANGED <<discover, appendedBy, lock, threads, services,
                   discovery_report>>

\* the interrupt handler of AirDropCli.__init__ in find mode before the
\* browser runs (cli.py:164-166): with self.browser None nothing is
\* stopped; with the browser constructed and not started
\* AirDropBrowser.stop raises on self.browser.cancel(); the process ends
interrupt_find ==
    /\ action = "find"
    /\ browser \in {"none", "constructed"}
    /\ browser' = "ended"
    /\ UNCHANGED <<discover, appendedBy, lock, threads, services,
                   discovery_report>>

(***************************************************************************)
(* A sender in find mode next to a receiver of this implementation: what   *)
(* the browser hands to the callback and what the Discover exchange gives. *)
(***************************************************************************)
\* an identifier that keeps the whole instance name
FirstLabel_whole(name) == name

\* _send_discover, cli.py:307: info.name.split(".")[0]
RECURSIVE FirstLabel(_)
FirstLabel(name) ==
    IF name = <<>> \/ Head(name) = "." THEN <<>>
    ELSE <<Head(name)>> \o FirstLabel(Tail(name))

\* the ServiceInfo of the registered service as _send_discover reads it,
\* cli.py:307-313: identifier, address, port, the flags of the TXT record
BrowsedInfo(si) ==
    [none |-> FALSE, id |-> FirstLabel(si.name), hasAddress |-> TRUE,
     hasFlags |-> TRUE, flagsTxt |-> si.flags, port |-> si.port]

\* the Discover exchange with the receiver: handle_discover answers 200
\* with the plist of discover_answer (server.py:278-296), the client reads
\* ReceiverComputerName from it (client.py:674-683)
DiscoverExchange(cfg) ==
    Response(200, DictWith(discover_answer(cfg).ReceiverComputerName))

\* a step of a resolution thread of the sender
thread_step ==
    \E t \in Threads :
        \/ resolve(t)
        \/ send_discover(t, DiscoverExchange(config))
        \/ read_index(t)
        \/ acquire(t)
        \/ append(t)
        \/ release(t)

(***************************************************************************)
(* Specifications                                                          *)
(***************************************************************************)
\* a receiver starting while other programs hold some ports
InitStart ==
    /\ InitFind
    /\ InitApi
    /\ InitRequestHandler
    /\ InitReader
    /\ config \in {ConfigOf(name, id, NoneVal) :
                       name \in ComputerNames, id \in ServiceIds}
    /\ busyPorts \in SUBSET PortsNear
    /\ http_server = 0
    /\ service_info = NoServiceInfo
    /\ startPc = "new"
    /\ ip_addr = LinkLocal
    /\ zeroconf = "open"
    /\ action = "receive"

NextStart ==
    \/ init_server /\ UNCHANGED exceptStart
    \/ init_service /\ UNCHANGED exceptStart
    \/ start_service /\ UNCHANGED exceptStart
    \/ start_server /\ UNCHANGED exceptStart
    \/ stop_server /\ UNCHANGED exceptStart

SpecStart == InitStart /\ [][NextStart]_vars

\* the command line in receive or find mode, from the constructor of the
\* server or the browser to the interrupt
InitCli ==
    /\ discover = <<>>
    /\ appendedBy = <<>>
    /\ lock = 0
    /\ threads = [t \in Threads |-> IdleThread]
    /\ browser = "none"
    /\ services = {}
    /\ discovery_report = [exists |-> FALSE, list |-> <<>>]
    /\ InitApi
    /\ InitRequestHandler
    /\ InitReader
    /\ config \in {ConfigOf(name, id, NoneVal) :
                       name \in ComputerNames, id \in ServiceIds}
    /\ busyPorts \in SUBSET {server_port, server_port + 1}
    /\ http_server = 0
    /\ service_info = NoServiceInfo
    /\ action \in {"receive", "find"}
    /\ startPc = IF action = "receive" THEN "init" ELSE "off"
    /\ ip_addr \in {NoneVal, LinkLocal}
    /\ zeroconf = "none"

NextCli ==
    \/ server_init /\ UNCHANGED exceptStart
    \/ init_server /\ UNCHANGED exceptStart
    \/ init_service /\ UNCHANGED exceptStart
    \/ start_service /\ UNCHANGED exceptStart
    \/ start_server /\ UNCHANGED exceptStart
    \/ stop_server /\ UNCHANGED exceptStart
    \/ interrupt_receive /\ UNCHANGED exceptStart
    \/ browser_init /\ UNCHANGED exceptFind
    \/ browser_start /\ UNCHANGED exceptFind
    \/ interrupt_find /\ UNCHANGED exceptFind
    \/ stop_browser /\ UNCHANGED exceptFind

SpecCli == InitCli /\ [][NextCli]_vars

\* a sender in find mode and one receiver on the same link; the threads
\* the sender starts are not daemon threads (cli.py:244-245), so each of
\* them runs on until it ends, also after the browser was stopped
InitPair ==
    /\ InitFind
    /\ InitApi
    /\ InitRequestHandler
    /\ InitReader
    /\ config \in {ConfigOf(name, id, record) : name \in ComputerNames,
                       id \in ServiceIds, record \in RecordData}
    /\ busyPorts \in SUBSET {server_port, server_port + 1}
    /\ http_server = 0
    /\ service_info = NoServiceInfo
    /\ startPc = "new"
    /\ ip_addr = LinkLocal
    /\ zeroconf = "open"
    /\ action = "receive"

NextPair ==
    \/ init_server /\ UNCHANGED exceptStart
    \/ init_service /\ UNCHANGED exceptStart
    \/ start_service /\ UNCHANGED exceptStart
    \/ start_server /\ UNCHANGED exceptStart
    \/ (startPc = "serving"
          /\ BrowsedInfo(service_info).id \notin services
          /\ add_service(BrowsedInfo(service_info)))
          /\ UNCHANGED exceptFind
    \/ (\E t \in Threads : resolve(t)) /\ UNCHANGED exceptFind
    \/ (\E t \in Threads : send_discover(t, DiscoverExchange(config)))
          /\ UNCHANGED exceptFind
    \/ (\E t \in Threads : read_index(t)) /\ UNCHANGED exceptFind
    \/ (\E t \in Threads : acquire(t)) /\ UNCHANGED exceptFind
    \/ (\E t \in Threads : append(t)) /\ UNCHANGED exceptFind
    \/ (\E t \in Threads : release(t)) /\ UNCHANGED exceptFind
    \/ stop_browser /\ UNCHANGED exceptFind

SpecPair == InitPair /\ [][NextPair]_vars

FairPair == SpecPair /\ WF_vars(thread_step /\ UNCHANGED exceptFind)

\* one file-mode Upload between this sender and this receiver
InitTransfer ==
    /\ InitFind
    /\ InitApi
    /\ InitServer
    /\ payloads = <<>>
    /\ rfile = <<>>
    /\ chunked = NewReader
    /\ returned = <<>>
    /\ lastLength = -1
    /\ readPc = "reading"
    /\ file \in [path : SenderPaths, content : Contents]
    /\ archive = <<>>
    /\ cwd \in Directories
    /\ created = {}
    /\ xferPc = "start"
    /\ uploadOk = "none"
    /\ InitNoConnection

NextTransfer ==
    \/ create_archive /\ UNCHANGED exceptTransfer
    \/ post_upload /\ UNCHANGED exceptTransfer
    \/ upload_head /\ UNCHANGED exceptTransfer
    \/ (\E size \in 1..MaxBuf : extract_read(size)) /\ UNCHANGED exceptTransfer
    \/ upload_done /\ UNCHANGED exceptTransfer

SpecTransfer == InitTransfer /\ [][NextTransfer]_vars

\* connection objects built for any host and interface
InitConnect ==
    /\ InitFind
    /\ InitApi
    /\ InitServer
    /\ payloads = <<>>
    /\ rfile = <<>>
    /\ chunked = NewReader
    /\ returned = <<>>
    /\ lastLength = -1
    /\ readPc = "reading"
    /\ file = [path |-> <<>>, content |-> <<>>]
    /\ archive = <<>>
    /\ cwd = <<>>
    /\ created = {}
    /\ xferPc = "off"
    /\ uploadOk = "none"
    /\ host \in Hosts
    /\ interface_name \in InterfaceNames
    /\ connHost = host
    /\ connPc = "new"

NextConnect == construct_connection /\ UNCHANGED exceptConn

SpecConnect == InitConnect /\ [][NextConnect]_vars

\* HTTPChunkedReader reading a well-formed chunked body with buffers of
\* any sizes
InitChunked ==
    /\ InitFind
    /\ InitApi
    /\ InitServer
    /\ file = [path |-> <<>>, content |-> <<>>]
    /\ archive = <<>>
    /\ cwd = <<>>
    /\ created = {}
    /\ xferPc = "off"
    /\ uploadOk = "none"
    /\ payloads \in PayloadLists
    /\ \E upper \in BOOLEAN : rfile = ChunkedBody(payloads, upper)
    /\ chunked = NewReader
    /\ returned = <<>>
    /\ lastLength = -1
    /\ readPc = "reading"
    /\ InitNoConnection

NextChunked ==
    (\E size \in 1..MaxBuf : reader_readinto(size)) /\ UNCHANGED exceptChunk

SpecChunked == InitChunked /\ [][NextChunked]_vars

\* what the connection holds after the chunked body: nothing, the start
\* of a next request, or octets that read like a chunk
Following ==
    {<<>>, <<"P", "O", "S", "T", " ", "/", CR, LF>>,
     <<"1">> \o CRLF \o <<"x">> \o CRLF}

\* the reader on a chunked body, called on after it has returned 0
InitReadOn ==
    /\ InitFind
    /\ InitApi
    /\ InitServer
    /\ file = [path |-> <<>>, content |-> <<>>]
    /\ archive = <<>>
    /\ cwd = <<>>
    /\ created = {}
    /\ xferPc = "off"
    /\ uploadOk = "none"
    /\ payloads \in PayloadLists
    /\ \E upper \in BOOLEAN : \E more \in Following :
          rfile = ChunkedBody(payloads, upper) \o more
    /\ chunked = NewReader
    /\ returned = <<>>
    /\ lastLength = -1
    /\ readPc = "reading"
    /\ InitNoConnection

NextReadOn ==
    \/ (\E size \in 1..MaxBuf : reader_readinto(size)) /\ UNCHANGED exceptChunk
    \/ (\E size \in 1..MaxBuf : read_after_end(size)) /\ UNCHANGED exceptChunk

SpecReadOn == InitReadOn /\ [][NextReadOn]_vars

\* the sender's discovery resolving one addition, with every kind of
\* ServiceInfo and of Discover outcome
InitResolve == InitFind /\ InitApi /\ InitServer /\ InitReader

NextResolve ==
    \/ /\ \A t \in Threads : threads[t].pc = "idle"
       /\ \E info \in Infos : add_service(info)
       /\ UNCHANGED exceptFind
    \/ (\E t \in Threads : resolve(t)) /\ UNCHANGED exceptFind
    \/ (\E t \in Threads : \E o \in Outcomes : send_discover(t, o))
          /\ UNCHANGED exceptFind
    \/ (\E t \in Threads : read_index(t)) /\ UNCHANGED exceptFind
    \/ (\E t \in Threads : acquire(t)) /\ UNCHANGED exceptFind
    \/ (\E t \in Threads : append(t)) /\ UNCHANGED exceptFind
    \/ (\E t \in Threads : release(t)) /\ UNCHANGED exceptFind
    \/ stop_browser /\ UNCHANGED exceptFind

SpecResolve == InitResolve /\ [][NextResolve]_vars

\* find mode with concurrent resolution threads: services come and go,
\* each addition of a service that is not present starts a thread
FindInfos ==
    [none : {FALSE}, id : ServiceIds, hasAddress : {TRUE}, hasFlags : {TRUE},
     flagsTxt : {<<"1", "3", "6">>}, port : {server_port}]

FindOutcomes == {Failure("timeout"), Response(200, DictWith(Str(Test)))}

InitFindMode ==
    /\ InitFind
    /\ InitApi
    /\ InitServer
    /\ InitReader

NextFind ==
    \/ (\E info \in FindInfos : info.id \notin services /\ add_service(info))
          /\ UNCHANGED exceptFind
    \/ (\E id \in ServiceIds : remove_service(id)) /\ UNCHANGED exceptFind
    \/ (\E t \in Threads : resolve(t)) /\ UNCHANGED exceptFind
    \/ (\E t \in Threads : \E o \in FindOutcomes : send_discover(t, o))
          /\ UNCHANGED exceptFind
    \/ (\E t \in Threads : read_index(t)) /\ UNCHANGED exceptFind
    \/ (\E t \in Threads : acquire(t)) /\ UNCHANGED exceptFind
    \/ (\E t \in Threads : append(t)) /\ UNCHANGED exceptFind
    \/ (\E t \in Threads : release(t)) /\ UNCHANGED exceptFind
    \/ stop_browser /\ UNCHANGED exceptFind

SpecFind == InitFindMode /\ [][NextFind]_vars

\* find mode with peers that fail: every kind of failure of a resolution
\* thread next to a peer that answers; each service is announced once
FaultInfos ==
    [none : {FALSE}, id : ServiceIds, hasAddress : {TRUE}, hasFlags : {TRUE},
     flagsTxt : {<<"1", "3", "6">>, <<"0", "x", "8", "8">>},
     port : {server_port}]

FaultOutcomes ==
    {Failure("connection error"), Failure("timeout"),
     Response(400, Garbage), Response(200, Garbage),
     Response(200, ArrayPlist), Response(200, DictWith(Str(Test)))}

fault_step ==
    \E t \in Threads :
        \/ resolve(t)
        \/ \E o \in FaultOutcomes : send_discover(t, o)
        \/ read_index(t)
        \/ acquire(t)
        \/ append(t)
        \/ release(t)

NextIsolation ==
    \/ (\E info \in FaultInfos : info.id \notin services /\ add_service(info))
          /\ UNCHANGED exceptFind
    \/ (\E t \in Threads : resolve(t)) /\ UNCHANGED exceptFind
    \/ (\E t \in Threads : \E o \in FaultOutcomes : send_discover(t, o))
          /\ UNCHANGED exceptFind
    \/ (\E t \in Threads : read_index(t)) /\ UNCHANGED exceptFind
    \/ (\E t \in Threads : acquire(t)) /\ UNCHANGED exceptFind
    \/ (\E t \in Threads : append(t)) /\ UNCHANGED exceptFind
    \/ (\E t \in Threads : release(t)) /\ UNCHANGED exceptFind
    \/ stop_browser /\ UNCHANGED exceptFind

SpecIsolation == InitFindMode /\ [][NextIsolation]_vars

\* the threads are scheduled by the operating system and are not daemon
\* threads: an enabled step of a thread is taken sooner or later
FairIsolation == SpecIsolation /\ WF_vars(fault_step /\ UNCHANGED exceptFind)

\* send mode
InitSendMode == InitFind /\ InitSend /\ InitServer /\ InitReader

NextSend ==
    \/ get_receiver_info /\ UNCHANGED exceptSend
    \/ send_ask /\ UNCHANGED exceptSend
    \/ ask_returned /\ UNCHANGED exceptSend
    \/ send_upload /\ UNCHANGED exceptSend
    \/ upload_returned /\ UNCHANGED exceptSend
    \/ post_build /\ UNCHANGED exceptSend
    \/ post_request /\ UNCHANGED exceptSend
    \/ post_getresponse /\ UNCHANGED exceptSend
    \/ post_read /\ UNCHANGED exceptSend

SpecSend == InitSendMode /\ [][NextSend]_vars

\* one client, any sequence of calls
InitClientApi == InitFind /\ InitApi /\ InitServer /\ InitReader

NextClient ==
    \/ client_call /\ UNCHANGED exceptSend
    \/ client_returned /\ UNCHANGED exceptSend
    \/ post_build /\ UNCHANGED exceptSend
    \/ post_request /\ UNCHANGED exceptSend
    \/ post_getresponse /\ UNCHANGED exceptSend
    \/ post_read /\ UNCHANGED exceptSend

SpecClient == InitClientApi /\ [][NextClient]_vars

\* one connection of the receiver
InitConnection ==
    /\ InitFind
    /\ InitApi
    /\ InitHandler
    /\ config \in Configs
    /\ InitReader

NextServer ==
    \/ (\E r \in Requests : receive_request(r))
          /\ UNCHANGED exceptServer
    \/ parse_request /\ UNCHANGED exceptServer
    \/ do_POST /\ UNCHANGED exceptServer
    \/ readinto /\ UNCHANGED exceptServer
    \/ upload_respond /\ UNCHANGED exceptServer
    \/ finish_request /\ UNCHANGED exceptServer
    \/ handler_raised /\ UNCHANGED exceptServer

SpecServer == InitConnection /\ [][NextServer]_vars

\* a connection to the receiver with requests of every method it answers
NextMethods ==
    \/ (\E r \in UploadRequests \cup PlistRequests \cup MethodRequests :
            receive_request(r))
          /\ UNCHANGED exceptServer
    \/ parse_request /\ UNCHANGED exceptServer
    \/ do_POST /\ UNCHANGED exceptServer
    \/ do_GET /\ UNCHANGED exceptServer
    \/ do_HEAD /\ UNCHANGED exceptServer
    \/ readinto /\ UNCHANGED exceptServer
    \/ upload_respond /\ UNCHANGED exceptServer
    \/ finish_request /\ UNCHANGED exceptServer
    \/ handler_raised /\ UNCHANGED exceptServer

SpecMethods == InitConnection /\ [][NextMethods]_vars

\* the receiver and the peers that connect to it: peers connect, send
\* Discover and Ask requests, stay idle or close as they like
InitPeers == InitFind /\ InitApi /\ InitServer /\ InitReader

ServeStep ==
    \/ get_request /\ UNCHANGED exceptAccept
    \/ (\E r \in PeerRequests : read_request(r)) /\ UNCHANGED exceptAccept
    \/ parse_request /\ UNCHANGED exceptServer
    \/ do_POST /\ UNCHANGED exceptServer
    \/ finish_request /\ UNCHANGED exceptServer
    \/ read_eof /\ UNCHANGED exceptAccept
    \/ shutdown_request /\ UNCHANGED exceptAccept

NextPeers ==
    \/ (\E p \in Peers : connect(p)) /\ UNCHANGED exceptAccept
    \/ (\E p \in Peers : send_request(p)) /\ UNCHANGED exceptAccept
    \/ (\E p \in Peers : peer_close(p)) /\ UNCHANGED exceptAccept
    \/ get_request /\ UNCHANGED exceptAccept
    \/ (\E r \in PeerRequests : read_request(r)) /\ UNCHANGED exceptAccept
    \/ parse_request /\ UNCHANGED exceptServer
    \/ do_POST /\ UNCHANGED exceptServer
    \/ finish_request /\ UNCHANGED exceptServer
    \/ read_eof /\ UNCHANGED exceptAccept
    \/ shutdown_request /\ UNCHANGED exceptAccept

SpecPeers == InitPeers /\ [][NextPeers]_vars

\* the serve loop runs whenever it can; the peers are under no obligation
FairPeers == SpecPeers /\ WF_vars(ServeStep)
(***************************************************************************)
(* Properties                                                              *)
(***************************************************************************)
Count(seq, x) == Cardinality({i \in 1..Len(seq) : seq[i] = x})
Last(seq) == seq[Len(seq)]

\* the outcome of the Discover exchange behind discover[i]
ExchangeOf(i) == threads[appendedBy[i]].exchange

\* the exchange returned a response whose ReceiverComputerName is a
\* non-empty string
ReturnedName(o) ==
    /\ o.kind = "response"
    /\ o.body.kind = "dict"
    /\ o.body.hasName
    /\ o.body.name.type = "string"
    /\ o.body.name.val # <<>>

\* C1: in every record of the discovery table, discoverable is true if and
\* only if the Discover exchange with that peer returned a response whose
\* ReceiverComputerName is a non-empty string.
C1_DiscoverableIffName ==
    \A i \in 1..Len(discover) :
        discover[i].discoverable <=> ReturnedName(ExchangeOf(i))

\* a connection error, a timeout, a non-200 status, or a response plist
\* without ReceiverComputerName
FailedExchange(o) ==
    \/ o.kind \in {"connection error", "timeout"}
    \/ o.kind = "response" /\ o.status # 200
    \/ o.kind = "response" /\ o.body.kind = "dict" /\ ~o.body.hasName

\* C2: every Discover attempt that ends in a connection error, a timeout, a
\* non-200 status or a response plist without ReceiverComputerName leaves a
\* record of the peer in the discovery table with name = None and
\* discoverable = false.
C2_FailedDiscoverRecorded ==
    \A t \in Threads :
        (threads[t].pc \in {"done", "crashed"}
           /\ FailedExchange(threads[t].exchange))
        => \E i \in 1..Len(discover) :
              /\ appendedBy[i] = t
              /\ discover[i].name = NoneVal
              /\ discover[i].discoverable = FALSE

\* C3: in a send operation that has found its receiver, send_POST is called
\* for /Ask exactly once; when that call does not return status 200 (a
\* non-200 response, or the request failed) the sender reports "Receiver
\* declined", makes no /Upload call and stops.  /Upload is called at most
\* once, and when it does not return status 200 the sender reports
\* "Uploading has failed" and stops.  No request is put on the wire twice.
C3_NoRetry ==
    /\ Count(calls, "/Ask") <= 1
    /\ Count(calls, "/Upload") <= 1
    /\ Count(wire, "/Ask") <= 1
    /\ Count(wire, "/Upload") <= 1
    /\ (sendPc = "done" /\ receiverInfo.kind = "found") => Count(calls, "/Ask") = 1
    /\ \A i \in 1..Len(returns) :
          (returns[i].url = "/Ask" /\ returns[i].status # 200)
          => /\ sendPc = "done"
             /\ Last(report) = "Receiver declined"
             /\ Count(calls, "/Upload") = 0
    /\ \A i \in 1..Len(returns) :
          (returns[i].url = "/Upload" /\ returns[i].status # 200)
          => /\ sendPc = "done"
             /\ Last(report) = "Uploading has failed"

C3_Witness ==
    /\ sendPc = "done"
    /\ \E i \in 1..Len(returns) :
          returns[i].url = "/Ask" /\ returns[i].status = 400
    /\ Count(wire, "/Ask") = 1

\* C4: in URL mode no POST /Upload is ever sent, whatever the outcome of
\* Ask.
C4_UrlModeNoUpload ==
    is_url => (Count(calls, "/Upload") = 0 /\ Count(wire, "/Upload") = 0)

C4_Witness ==
    /\ is_url
    /\ sendPc = "done"
    /\ \E i \in 1..Len(returns) :
          returns[i].url = "/Ask" /\ returns[i].status = 200

\* C5: a URL-mode send whose Ask is answered with status 200 skips Upload
\* and ends by reporting success to the user.
C5_UrlSendReportsSuccess ==
    (/\ sendPc = "done"
     /\ is_url
     /\ \E i \in 1..Len(returns) :
           returns[i].url = "/Ask" /\ returns[i].status = 200)
    => /\ Count(wire, "/Upload") = 0
       /\ Last(report) = "Uploading has been successful"

\* C6 as stated: a request is put on the wire only when the response to the
\* previous request has been read completely (or there was no previous
\* request), and at most one connection object is created per client.
C6_AfterCompleteRead ==
    /\ [][Len(wire') > Len(wire) => respState \in {"none", "complete"}]_vars
    /\ [](connsCreated <= 1)

\* C6 as amended: a request is put on the wire only after the previous
\* send_POST call has returned, that is after the response to the previous
\* request has been read completely or that exchange has failed; every
\* request uses the connection object created for the first, and at most
\* one connection object is created per client over any sequence of calls.
C6_SequentialOneConnection ==
    /\ [][Len(wire') > Len(wire)
            => /\ respState \in {"none", "complete", "abandoned"}
               /\ Len(returns) = Len(calls) - 1
               /\ http_conn' = 1]_vars
    /\ [](connsCreated <= 1)

C6_Witness ==
    /\ Len(wire) >= 2
    /\ connsCreated = 1
    /\ respState = "complete"

\* the responses emitted for request n, in order
RECURSIVE ResponsesOf(_, _)
ResponsesOf(seq, n) ==
    IF seq = <<>> THEN <<>>
    ELSE IF Head(seq).n = n
         THEN <<Head(seq)>> \o ResponsesOf(Tail(seq), n)
         ELSE ResponsesOf(Tail(seq), n)

StatusesOf(n) ==
    LET rs == ResponsesOf(responses, n)
    IN [i \in 1..Len(rs) |-> rs[i].status]

Answered == srvPc \in {"finish", "idle", "closed"}

CpioTypes == {"application/x-cpio", "Application/X-CPIO"}
ContinueExpects == {"100-continue", "100-Continue"}
ChunkedEncodings == {"chunked", "Chunked"}

\* C7: a POST /Upload whose Content-Type is not application/x-cpio (case
\* ignored) gets 406 with Connection: close as its first and only
\* response: no interim 100 even with Expect: 100-continue, no body octet
\* read, nothing extracted, whatever the Transfer-Encoding.
C7_WrongTypeOnly406 ==
    (req.path = "/Upload" /\ req.contentType \notin CpioTypes)
    => /\ Count(StatusesOf(req.n), 100) = 0
       /\ reader.octetsRead = 0
       /\ extract = "idle"
       /\ Answered =>
             ResponsesOf(responses, req.n) = <<Resp(req.n, 406, TRUE, "0")>>

\* C8: a POST /Upload with Content-Type application/x-cpio whose
\* Transfer-Encoding is missing or not chunked (case ignored) gets the
\* terminal status 400 with Connection: close, and nothing is extracted.
C8_NotChunked400 ==
    (/\ req.path = "/Upload"
     /\ req.contentType \in CpioTypes
     /\ req.transferEncoding \notin ChunkedEncodings)
    => /\ extract = "idle"
       /\ reader.octetsRead = 0
       /\ srvPc \notin {"extract", "respond", "error"}
       /\ Count(StatusesOf(req.n), 200) = 0
       /\ Answered =>
             /\ Last(ResponsesOf(responses, req.n)) = Resp(req.n, 400, TRUE, "0")
             /\ Count(StatusesOf(req.n), 400) = 1

C8_Witness ==
    /\ req.path = "/Upload"
    /\ req.contentType = "Application/X-CPIO"
    /\ req.transferEncoding = ""
    /\ srvPc = "closed"
    /\ Last(responses).status = 400

\* C9: for a POST /Upload that passes the Content-Type check, with Expect:
\* 100-continue exactly one interim 100 is emitted, before the terminal
\* response and before any body octet is read; without the Expect header
\* no 100 is emitted.
C9_ExactlyOne100 ==
    (req.path = "/Upload" /\ req.contentType \in CpioTypes
       /\ srvPc \notin {"parse", "dispatch"})
    => LET sts == StatusesOf(req.n)
       IN IF req.expect \in ContinueExpects
          THEN /\ Count(sts, 100) = 1
               /\ sts[1] = 100
          ELSE Count(sts, 100) = 0

BodiesOf(n) == {i \in 1..Len(wfile) : wfile[i].n = n}

\* do_POST has chosen the handler of the current request
Dispatched == handler # ""

HandledPaths == {"/Discover", "/Ask", "/Upload"}

\* C13: the receiver dispatches each POST by exact path: /Discover, /Ask
\* and /Upload go to their handlers, and a POST to any other path gets the
\* terminal status 400 with Content-Length 0 and no body, with no request
\* body read, nothing extracted and the connection state left as the
\* request's version and Connection header set it.
C13_ExactPathDispatch ==
    Dispatched =>
       /\ (handler = "handle_discover") <=> (req.path = "/Discover")
       /\ (handler = "handle_ask") <=> (req.path = "/Ask")
       /\ (handler = "handle_upload") <=> (req.path = "/Upload")
       /\ req.path \notin HandledPaths =>
             /\ handler = "none"
             /\ Last(ResponsesOf(responses, req.n)) = Resp(req.n, 400, FALSE, "0")
             /\ Count(StatusesOf(req.n), 200) = 0
             /\ BodiesOf(req.n) = {}
             /\ post_data = "unread"
             /\ reader = NoReader
             /\ extract = "idle"
             /\ srvPc \in {"finish", "idle", "closed"}
             /\ close_connection = ((req.version = 10 /\ req.connection # "keep-alive")
                                       \/ req.connection = "close")

C13_Witness ==
    /\ req.path = "/discover"
    /\ req.hasLength
    /\ srvPc = "idle"
    /\ handled = 1
    /\ Last(responses).status = 400

\* a Discover request with a body of declared length has been answered
DiscoverAnswered ==
    /\ req.path = "/Discover"
    /\ req.hasLength
    /\ Answered

\* the answer to the current request: status 200, one body, with the
\* receiver's configured name and model
NameAndModelAnswer ==
    /\ Last(ResponsesOf(responses, req.n)) = Resp(req.n, 200, FALSE, "body")
    /\ Cardinality(BodiesOf(req.n)) = 1
    /\ \A i \in BodiesOf(req.n) :
          /\ wfile[i].plist.ReceiverComputerName = Str(config.computer_name)
          /\ wfile[i].plist.ReceiverModelName = Str(config.computer_model)

C15_AskAlwaysAccepted ==
    /\ (req.path = "/Ask" /\ req.hasLength /\ Dispatched)
         => /\ srvPc # "error"
            /\ NameAndModelAnswer
            /\ \A i \in BodiesOf(req.n) :
                  DOMAIN wfile[i].plist
                     = {"ReceiverComputerName", "ReceiverModelName"}
            /\ \A st \in {400, 406} : Count(StatusesOf(req.n), st) = 0

C15_Witness ==
    /\ req.path = "/Ask"
    /\ req.n = 1
    /\ req.body = "garbage"
    /\ srvPc = "idle"
    /\ Last(responses).status = 200

\* C11: for every well-formed chunked body and every sequence of buffer
\* sizes >= 1, the octets the readinto calls return, concatenated, are the
\* chunk payloads in order; no call raises; a call returns 0 exactly when
\* all payload octets have been returned before it (the zero-length chunk
\* is reached), and reader.total is then the sum of the chunk lengths.
C11_ChunkedReaderDecodes ==
    /\ [](readPc # "raised")
    /\ [](\E n \in 0..Len(Concat(payloads)) :
             returned = SubSeq(Concat(payloads), 1, n))
    /\ [](chunked.total = Len(returned))
    /\ [][(lastLength' = 0) <=> (returned = Concat(payloads))]_chunkVars
    /\ [](readPc = "zero"
            => /\ returned = Concat(payloads)
               /\ chunked.total = Len(Concat(payloads))
               /\ lastLength = 0)

C11_Witness ==
    /\ readPc = "zero"
    /\ Len(payloads) = 2
    /\ payloads[1] = <<"q", LF, "r">>
    /\ Len(payloads[2]) = 11
    /\ chunked.total = 14
    /\ rfile = <<>>

\* C12: for every file-mode send that completes Upload between this
\* sender and this receiver, the files created under the receiver's
\* working directory are exactly { basename(f) : f in the sender's file
\* list } (one file: send_upload takes one path), each with exactly the
\* content of its source.
C12_RoundTrip ==
    uploadOk = "True" =>
       /\ created = {<<Basename(file.path)>>}
       /\ \A p \in created : p \in DOMAIN cwd /\ cwd[p] = file.content
       /\ Last(responses).status = 200

C12_Witness ==
    /\ uploadOk = "True"
    /\ file.path = <<"home", "u", "a.txt">>
    /\ file.content = <<CR, LF, "0", CR, LF, CR, LF>>
    /\ cwd[<<"a.txt">>] = <<CR, LF, "0", CR, LF, CR, LF>>
    /\ Len(payloads) >= 3

\* IPv6 literals without a zone identifier
ZonelessLiterals ==
    {<<"f", "e", "8", "0", ":", ":", "1">>, <<":", ":", "1">>,
     <<"f", "e", "8", "0", ":", ":", "a", ":", "b">>}

\* C18: when the client connects with an interface name, an IPv6 literal
\* host without a zone identifier becomes host%interface and a host that
\* already contains "%" is left unchanged; the rule applied to its own
\* result gives that result again.
C18_ZoneAppendedOnce ==
    /\ [](interface_name # NoneVal =>
            /\ (host \in ZonelessLiterals
                  \/ \E i \in 1..Len(host) : host[i] = "%")
                 => connPc # "raised"
            /\ connPc \in {"once", "twice"} =>
                  /\ host \in ZonelessLiterals
                       => connHost = host \o <<"%">> \o interface_name.val
                  /\ (\E i \in 1..Len(host) : host[i] = "%")
                       => connHost = host)
    /\ [][connPc = "once" => (connPc' = "twice" /\ connHost' = connHost)]_connVars

C18_Witness ==
    /\ connPc = "twice"
    /\ host = <<"f", "e", "8", "0", ":", ":", "1">>
    /\ interface_name = Str(<<"a", "w", "d", "l", "0">>)
    /\ connHost = <<"f", "e", "8", "0", ":", ":", "1", "%", "a", "w", "d", "l", "0">>

\* C17: after any sequence of mDNS additions and removals during a browse
\* session, no two records of the discovery table have the same service
\* id.
C17_UniqueServiceId ==
    \A i, j \in 1..Len(discover) :
        i # j => discover[i].id # discover[j].id

C20_AdvertisedMatchesBound ==
    startPc \in {"built", "registered"} =>
        /\ Len(service_info.name) = Len(config.service_id) + 21
        /\ SubSeq(service_info.name, 1, Len(config.service_id))
              = config.service_id
        /\ SubSeq(service_info.name, Len(config.service_id) + 1,
                  Len(service_info.name))
              = <<".", "_", "a", "i", "r", "d", "r", "o", "p", ".", "_", "t",
                  "c", "p", ".", "l", "o", "c", "a", "l", ".">>
        /\ IsDecimal(service_info.flags)
        /\ Head(service_info.flags) # "0"
        /\ DecValue(service_info.flags, 0) = config.flags
        /\ http_server # 0
        /\ service_info.port = http_server

C20_Witness ==
    /\ startPc = "registered"
    /\ busyPorts = {server_port}
    /\ http_server = server_port + 1
    /\ service_info.port = server_port + 1

\* the record of the receiver: its service id, its computer name, the port
\* it listens on, discoverable
IsReceiverRecord(rec) ==
    /\ rec.id = config.service_id
    /\ rec.name = Str(config.computer_name)
    /\ rec.port = http_server
    /\ rec.discoverable = TRUE

OneReceiverRecord(list) == Len(list) = 1 /\ IsReceiverRecord(list[1])

C30_NoAddressDropped ==
    \A t \in Threads :
        (threads[t].pc # "idle" /\ ~threads[t].info.none
            /\ ~threads[t].info.hasAddress) =>
            /\ threads[t].pc \in {"resolve", "dropped"}
            /\ threads[t].exchange = NoExchange
            /\ \A i \in 1..Len(appendedBy) : appendedBy[i] # t
            /\ \A i \in 1..Len(discover) : discover[i].id # threads[t].info.id

C30_Witness ==
    \E t \in Threads :
        /\ threads[t].pc = "dropped"
        /\ ~threads[t].info.hasAddress
        /\ discover = <<>>

\* C24: every access to the discovery table is made under the table
\* mutex: a thread appends and reads the table's length only while it
\* holds the lock, and the discovery file is written at stop only when no
\* thread is inside its locked section.
C24_AccessUnderMutex ==
    [][/\ \A t \in Threads :
             (threads[t].pc = "append" /\ threads'[t].pc = "release")
                => lock = t
       /\ \A t \in Threads :
             (threads[t].pc = "index" /\ threads'[t].pc = "acquire")
                => lock = t
       /\ (browser = "running" /\ browser' = "stopped") => lock = 0]_vars

\* C25: the index displayed for a record is the position the record has
\* in the discovery table, counted from 0.
C25_DisplayedIndexIsPosition ==
    \A i \in 1..Len(discover) :
        discover[i].discoverable => threads[appendedBy[i]].index = i - 1

\* C28: an mDNS addition starts exactly one resolution thread and changes
\* no other thread, and an addition is accepted whatever the number of
\* Discover exchanges that are outstanding.
AdditionAccepted ==
    ENABLED (\E info \in FindInfos :
                info.id \notin services /\ add_service(info))

C28_OneTaskNoWait ==
    /\ [][(services' # services /\ services \subseteq services') =>
            \E t \in Threads :
               /\ threads[t].pc = "idle"
               /\ threads'[t].pc = "resolve"
               /\ \A u \in Threads \ {t} : threads'[u] = threads[u]]_vars
    /\ []((/\ browser = "running"
           /\ \E t \in Threads : threads[t].pc = "idle"
           /\ services # ServiceIds) => AdditionAccepted)

C28_Witness ==
    \E t, u \in Threads :
        /\ threads[t].pc = "discover"
        /\ threads[u].pc = "resolve"
        /\ threads[t].info.id # threads[u].info.id

\* C29: a thread that ends by an exception does not hold the lock, its
\* last step changes neither the browser nor the table nor another
\* thread, and every thread that got past its Discover exchange appends
\* its record whatever became of the others.
C29_FailureIsolated ==
    /\ [](\A t \in Threads :
            threads[t].pc \in {"crashed", "dropped"} => lock # t)
    /\ [][\A t \in Threads :
            (threads[t].pc # "crashed" /\ threads'[t].pc = "crashed") =>
                /\ browser' = browser
                /\ discover' = discover
                /\ lock' = lock
                /\ \A u \in Threads \ {t} : threads'[u] = threads[u]]_vars
    /\ \A t \in Threads :
          (threads[t].pc = "index") ~>
              (\E i \in 1..Len(appendedBy) : appendedBy[i] = t)

C29_Witness ==
    \E t, u \in Threads :
        /\ threads[t].pc = "crashed"
        /\ threads[u].pc = "done"
        /\ \E i \in 1..Len(appendedBy) : appendedBy[i] = u
        /\ lock = 0
        /\ browser = "running"

\* a selector that is an integer and a position of the list
ValidIndex(list, sel) ==
    IsInt(sel) /\ ListIndex(list, IntValue(sel)) # 0

\* C23: a selector that is the 12-hex-digit id of a record of the
\* discovery file and no valid list index selects a record with that id;
\* a selector that is a record's name and neither a valid index nor an id
\* selects a record with that name.
C23_SelectsByIdOrName ==
    (sendPc # "start" /\ infos.exists /\ ~ValidIndex(infos.list, receiver)) =>
        /\ (/\ Len(receiver) = 12
            /\ IsHex(receiver)
            /\ \E i \in 1..Len(infos.list) : infos.list[i].id = receiver) =>
               /\ receiverInfo.kind = "found"
               /\ infos.list[receiverInfo.index].id = receiver
        /\ (/\ \A i \in 1..Len(infos.list) : infos.list[i].id # receiver
            /\ \E i \in 1..Len(infos.list) :
                  infos.list[i].name = Str(receiver)) =>
               /\ receiverInfo.kind = "found"
               /\ infos.list[receiverInfo.index].name = Str(receiver)

\* C26: an Upload whose chunked framing is malformed (a chunk-size line
\* that is not hexadecimal, a stream that ends inside a chunk or before
\* the last chunk) is answered with 400 or 406 and not with 200.
C26_FramingErrorAnswered ==
    (srvPc = "closed" /\ reader.framing = "malformed") =>
        /\ \E i \in 1..Len(responses) :
              responses[i].n = req.n /\ responses[i].status \in {400, 406}
        /\ \A i \in 1..Len(responses) :
              responses[i].n = req.n => responses[i].status # 200

\* extract_stream, the one place of the handler that writes under the
\* working directory, has been entered for the request
Extracting == extract # "idle"

\* C27: the working directory is written only while a POST /Upload that
\* passed both header checks is handled: HEAD, GET, POST /Discover,
\* POST /Ask, POST to another path and an Upload answered 406 or 400 never
\* get to the extraction.
C27_WritesOnlyInAcceptedUpload ==
    /\ Extracting =>
          /\ req.method = "POST"
          /\ req.path = "/Upload"
          /\ Lower(req.contentType) = "application/x-cpio"
          /\ Lower(req.transferEncoding) = "chunked"
          /\ \A i \in 1..Len(responses) :
                responses[i].n = req.n => responses[i].status \notin {400, 406}
    /\ (\E i \in 1..Len(responses) :
            responses[i].n = req.n /\ responses[i].status \in {400, 406})
          => ~Extracting
    /\ (req.method \in {"GET", "HEAD"} \/ req.path # "/Upload") => ~Extracting

C27_Witness ==
    /\ req.method = "GET"
    /\ req.path = "/Upload"
    /\ srvPc = "finish"
    /\ \E i \in 1..Len(responses) :
          responses[i].n = req.n /\ responses[i].status = 200
    /\ ~Extracting

\* C21: when the interface has no IPv6 address the constructor of the
\* server or the browser raises, and no mDNS engine exists, no service is
\* registered or browsed and no socket is bound.
C21_NoAddressFailsFirst ==
    ip_addr = NoneVal =>
        /\ startPc \in {"off", "init", "raised", "ended"}
        /\ browser \in {"none", "raised", "ended"}
        /\ zeroconf = "none"
        /\ http_server = 0
        /\ service_info = NoServiceInfo
        /\ services = {}

C21_Witness ==
    /\ ip_addr = NoneVal
    /\ startPc = "raised" \/ browser = "raised"

\* the interrupt handler has run
Interrupted ==
    startPc \in {"ended", "stopped", "hung"} \/ browser \in {"ended", "stopped"}

\* C22: after an interrupt the process has ended, with no service
\* announced, the browser cancelled and the HTTP server shut down.
C22_InterruptEndsClean ==
    Interrupted =>
        /\ startPc # "hung"
        /\ zeroconf # "announcing"
        /\ http_server = 0
        /\ browser \notin {"constructed", "running"}

\* the thread has made the decision of cli.py:318 and gone past it
PastDiscover(t) ==
    /\ threads[t].pc \notin {"idle", "resolve", "discover"}
    /\ ~threads[t].info.none
    /\ threads[t].info.hasAddress

\* the TXT record has no flags key, or flags whose value has bit 0x80
FlagsAllowDiscover(info) ==
    \/ ~info.hasFlags
    \/ /\ IsDecimal(info.flagsTxt)
       /\ (DecValue(info.flagsTxt, 0) \div 128) % 2 = 1

\* C31: a Discover request goes to a resolved peer if and only if its
\* TXT record has no flags key or its flags have bit 0x80; a peer whose
\* flags have the bit clear is recorded with name None and discoverable
\* false, a peer without flags with flags = 0x80.
C31_DiscoverIffFlagsAllow ==
    /\ \A t \in Threads :
          PastDiscover(t) =>
             (threads[t].exchange # NoExchange
                <=> FlagsAllowDiscover(threads[t].info))
    /\ \A i \in 1..Len(discover) :
          LET info == threads[appendedBy[i]].info IN
            /\ ~FlagsAllowDiscover(info) =>
                  /\ discover[i].name = NoneVal
                  /\ discover[i].discoverable = FALSE
            /\ ~info.hasFlags => discover[i].flags = 128

C31_Witness ==
    \E i \in 1..Len(discover) :
        /\ threads[appendedBy[i]].info.flagsTxt = <<"8">>
        /\ threads[appendedBy[i]].exchange = NoExchange
        /\ discover[i].flags = 8

\* the threads inside the locked section of _send_discover
InLockedSection == {t \in Threads : threads[t].pc \in {"append", "release"}}

\* the threads that have made their append
Appended == {t \in Threads : threads[t].pc \in {"release", "done"}}

\* C32: at most one thread is inside the locked section and it holds the
\* lock; the table holds exactly one record, its own, for each thread
\* that made its append and none for any other thread.
C32_AppendsExclusiveNoneLost ==
    /\ Cardinality(InLockedSection) <= 1
    /\ \A t \in InLockedSection : lock = t
    /\ Len(discover) = Cardinality(Appended)
    /\ Len(appendedBy) = Len(discover)
    /\ \A t \in Threads :
          Count(appendedBy, t) = IF t \in Appended THEN 1 ELSE 0
    /\ \A i \in 1..Len(discover) :
          threads[appendedBy[i]].pc = "done"
             => discover[i] = node_info(appendedBy[i])

C32_Witness ==
    \E t, u \in Threads :
        /\ t < u
        /\ threads[t].pc = "done"
        /\ threads[u].pc = "done"
        /\ \E i, j \in 1..Len(appendedBy) :
              i < j /\ appendedBy[i] = u /\ appendedBy[j] = t

\* a selector that is no valid index, no id and no name of a record
NoSuchReceiver(list, sel) ==
    /\ ~ValidIndex(list, sel)
    /\ \A i \in 1..Len(list) : list[i].id # sel /\ list[i].name # Str(sel)

\* C33: for a selector that is neither a valid index nor the id nor the
\* name of a record (a number beyond the end of the list included), the
\* lookup returns no record and send ends with no client and no request.
C33_UnknownReceiverNoRequest ==
    (sendPc # "start" /\ NoSuchReceiver(infos.list, receiver)) =>
        /\ receiverInfo = NoneFound
        /\ sendPc = "done"
        /\ connsCreated = 0
        /\ calls = <<>>
        /\ wire = <<>>

\* C34: every record of the discovery table with discoverable = false
\* has name = None, and every record with discoverable = true has a name
\* that is a non-empty string.
C34_NameAndDiscoverableAgree ==
    \A i \in 1..Len(discover) :
        /\ ~discover[i].discoverable => discover[i].name = NoneVal
        /\ discover[i].discoverable =>
              /\ discover[i].name.type = "string"
              /\ discover[i].name.val # <<>>

\* the connection in hand is idle: its peer has sent nothing further and
\* keeps it open
IdleConnection ==
    /\ current # 0
    /\ srvPc = "idle"
    /\ peers[current].pc = "open"
    /\ ~Pending(current)

C36_EndIsFinal ==
    [][readPc = "zero" =>
          /\ readPc' = "zero"
          /\ lastLength' = 0
          /\ rfile' = rfile]_vars

\* the pair send_POST returns: (False, None), or (status == 200, bytes)
FalseNone(r) == ~r.ok /\ ~r.hasBody
StatusAndBody(r, st) == r.hasBody /\ (r.ok <=> st = 200)

RequestEnds == srvPc = "finish" /\ srvPc' # "finish"

\* the request asks for a persistent connection: HTTP/1.1 without
\* Connection: close, or Connection: keep-alive
AsksPersistent(r) ==
    /\ Lower(r.connection) # "close"
    /\ r.version >= 11 \/ Lower(r.connection) = "keep-alive"

\* C38: the connection stays open after a Discover or Ask response and
\* is closed by the receiver after every terminal Upload response.
C38_OpenAfterPlistClosedAfterUpload ==
    [][RequestEnds =>
          /\ handler \in {"handle_discover", "handle_ask"}
                => srvPc' = "idle"
          /\ handler = "handle_upload"
                => /\ srvPc' = "closed"
                   /\ Last(responses).status \in {200, 400, 406}
                   /\ Last(responses).connClose]_vars

\* C38 (amended): the connection stays open after a Discover or Ask
\* response to a request that asks for a persistent connection, is
\* closed after the response to one that does not, and is closed by the
\* receiver after every terminal Upload response.
C38_OpenAfterPersistentPlist ==
    [][RequestEnds =>
          /\ handler \in {"handle_discover", "handle_ask"}
                => (srvPc' = "idle" <=> AsksPersistent(req))
          /\ handler = "handle_upload"
                => /\ srvPc' = "closed"
                   /\ Last(responses).status \in {200, 400, 406}
                   /\ Last(responses).connClose]_vars

C38_Witness ==
    /\ srvPc = "closed"
    /\ handled = 2
    /\ req.path = "/Upload"
    /\ Len(responses) = 2
    /\ responses[1].n = 1
    /\ responses[1].status = 200
    /\ ~responses[1].connClose
    /\ responses[2].n = 2
    /\ responses[2].status = 200
    /\ responses[2].connClose

\* find mode is stopped in this step
FindStops == browser = "running" /\ browser' = "stopped"

\* the thread has been started and has not appended its record
InFlight(t) ==
    threads[t].pc \in {"resolve", "discover", "index", "acquire", "append"}

Extends(new, old) ==
    /\ Len(new) >= Len(old)
    /\ SubSeq(new, 1, Len(old)) = old

\* C40: the discovery table is append-only: every step leaves it as it
\* is or appends one record, whether the step is a removal event, a later
\* addition of the same service or the stop.
C40_TableAppendOnly ==
    /\ [][/\ Extends(discover', discover)
          /\ Len(discover') <= Len(discover) + 1]_vars
    /\ [][services' # services => discover' = discover]_vars

C40_Witness ==
    /\ Len(discover) = 2
    /\ discover[1].id = discover[2].id
    /\ discover[1].id \notin services
====
